---- MODULE Spec2Model ----
(***************************************************************************)
(* LLM dispatch layer of ai-solution-center: LLMService (provider          *)
(* registry, configure, generateCompletion with executeWithRetry and the   *)
(* fallback loop).  One action per synchronous block of the async code:    *)
(* a block runs from one await (isAvailable, generateCompletion, delay)    *)
(* to the next.                                                            *)
(***************************************************************************)
EXTENDS Integers, Sequences, FiniteSets, TLC

\* ------------------------------------------------------------------ bounds
MaxRetry == 2
MaxFallback == 2
MaxRegistrations == 3
MaxMessages == 3

\* ------------------------------------------------------- program constants
DefaultRetryAttempts == 3
DefaultRetryDelay == 1000

\* --------------------------------------------------------------- universes
Names == {"A", "B", "C"}
InstanceIds == {1}
\* Adapter objects handed to registerProvider in the registry specification:
\* two different adapters carry the name "A".
Adapters ==
    {[name |-> "A", inst |-> 1], [name |-> "A", inst |-> 2],
     [name |-> "B", inst |-> 1], [name |-> "C", inst |-> 1]}
Undef == "<undefined>"
DelayChoices == {10}
DefaultChoices == {"A"}
OptionChoices == {"A", "B"}
FallbackChoices == {"B", "C"}
CallErrorKinds == {"network", "auth"}
ProbeOutcomes == {"true", "false", "throw"}

RECURSIVE SeqsUpTo(_, _)
SeqsUpTo(S, n) ==
    IF n = 0 THEN {<<>>}
    ELSE LET shorter == SeqsUpTo(S, n - 1)
         IN  shorter \cup {Append(s, x) : s \in {t \in shorter : Len(t) = n - 1}, x \in S}

FallbackLists == SeqsUpTo(FallbackChoices, MaxFallback)
RetryChoices == 0..MaxRetry

\* The arguments of generateCompletion beside options.provider: options.model
\* and the messages array.
ModelChoices == {Undef, "gpt-4o-mini"}
MessageChoices == {<<[role |-> "user", content |-> "x"]>>,
                   <<[role |-> "system", content |-> "y"], [role |-> "user", content |-> "x"]>>}

\* The names the three adapter classes register under (public readonly name),
\* in the order LLMModule.forRoot registers them.
openai == "A"
claude == "B"
ollama == "C"
\* provider: 'mock' of the chat service's substitute response, and the index
\* Math.random picks among its three texts.
mock == "mock"
MockResponses == {0, 1, 2}
\* Inputs of LLMModule.forRoot: API keys (option or environment), the default
\* provider (option or LLM_DEFAULT_PROVIDER), llmOptions.fallbackProviders,
\* llmOptions.retryAttempts and llmOptions.retryDelay (0: absent or zero).
KeyChoices == {Undef, "sk-key"}
WiredDefaultChoices == {Undef, ollama}
WiredFallbackChoices == {Undef, <<claude>>}
WiredRetryChoices == {0, 1}
WiredDelayChoices == {0, 10}
\* The factory is run without options, as AppModule runs it (keys and default
\* provider from the environment; the defaults 3, 1000 and the three-entry
\* fallback list), or with options: the default retryAttempts together with
\* a short explicit fallback list, or one try and any fallback list.  The
\* default provider comes from the option or from the environment, not both.
ForRootInputs ==
    {o \in [openaiKey : KeyChoices, anthropicKey : KeyChoices,
            optDefault : WiredDefaultChoices, envDefault : WiredDefaultChoices,
            fb : WiredFallbackChoices, ra : WiredRetryChoices, rd : WiredDelayChoices] :
        /\ (o.ra = 0 => (o.fb # Undef \/ (o.optDefault = Undef /\ o.rd = 0)))
        /\ (o.optDefault = Undef \/ o.envDefault = Undef)}
\* provider of a ChatRequest.
ChatProviderChoices == {Undef, openai, claude, ollama}

\* Vendor adapters taken on their own: the three classes, the API keys a
\* constructor can be given, and the conversations passed to generateCompletion.
AdapterKinds == {"openai", "claude", "ollama"}
ApiKeys == {Undef, "", "sk-key"}
Roles == {"system", "user", "assistant"}
Contents == {"x", "y"}
LLMMessages == [role : Roles, content : Contents]
Conversations == SeqsUpTo(LLMMessages, MaxMessages)
\* How the vendor calls behind the adapters can settle.
ModelsListOutcomes == {"ok", "transport", "auth"}
FetchOutcomes == {"ok", "not_ok", "transport"}
CreateOutcomes == {"ok", "network", "auth"}
JsonOutcomes == {"ok", "malformed"}

VARIABLES
    providers,          \* LLMService.providers: name -> adapter instance (0: absent)
    defaultProvider,    \* LLMService.defaultProvider
    fallbackProviders,  \* LLMService.fallbackProviders
    retryAttempts,      \* LLMService.retryAttempts
    retryDelay,         \* LLMService.retryDelay
    call,               \* the generateCompletion call: locals, position, observed adapter calls
    regOrder,           \* key order of the providers Map (insertion order)
    regLog,             \* the registerProvider calls made so far, in order
    other,              \* a second generateCompletion call, for interleaved dispatches
    logs,               \* per call (1: call, 2: other) the option and adapter responses it received
    prior,              \* per call the outcome of the call issued before it from the same caller
    listed,             \* what getAvailableProviders returned last
    query,              \* the checkProviderAvailability call: position and collected entries
    adapter,            \* one vendor adapter on its own: its fields and the call made on it
    app                 \* the application: LLMModule.forRoot wiring and the chat service's request

vars == <<providers, defaultProvider, fallbackProviders, retryAttempts, retryDelay, call,
          regOrder, regLog, other, logs, prior, listed, query, adapter, app>>
service == <<providers, defaultProvider, fallbackProviders, retryAttempts, retryDelay>>
\* What the single-call actions leave alone.
bystanders == <<regOrder, regLog, other, logs, prior, listed, query, adapter, app>>

\* ------------------------------------------------------------------ values
\* An error value; NoError is JavaScript's undefined (lastError before any catch).
Err(kind, src, try) == [kind |-> kind, src |-> src, try |-> try]
NoError == Err("undefined", Undef, 0)
NoResult == [status |-> "none", provider |-> Undef, error |-> NoError]
\* Variant: the result names the provider the caller asked for, not the adapter.
Success_Requested(p) == [status |-> "ok", provider |-> call.optProvider, error |-> NoError]
\* The LLMResponse an adapter returns: provider: this.name
Success(p) == [status |-> "ok", provider |-> p, error |-> NoError]
Failure(e) == [status |-> "error", provider |-> Undef, error |-> e]
NoProbe == [at |-> "none", provider |-> Undef, try |-> 0, res |-> "none"]
ZeroCount == [n \in Names |-> 0]
Untouched == [status |-> "untouched", pre |-> "none", gens |-> 0]

\* Locals of generateCompletion / executeWithRetry before the call starts,
\* followed by the observations of the call (what mock adapters and a fake
\* timer record): calls per adapter, per fallback entry, the delays, the last probe.
IdleCall ==
    [pc |-> "idle", optProvider |-> Undef, providerName |-> Undef,
     primaryProvider |-> 0, phase |-> "none", cur |-> Undef, curInst |-> 0,
     attempt |-> 0, lastError |-> NoError, error |-> NoError,
     fbList |-> <<>>, fbIdx |-> 0, result |-> NoResult,
     nProbe |-> ZeroCount, nGen |-> ZeroCount, nTrue |-> ZeroCount,
     fbProbe |-> ZeroCount, fbGen |-> ZeroCount,
     entries |-> <<>>, delays |-> <<>>, lastProbe |-> NoProbe,
     primaryTryError |-> NoError, primaryTries |-> 0,
     lastGen |-> Undef, pending |-> 0,
     started |-> [retryAttempts |-> 0, retryDelay |-> 0, fallbackProviders |-> <<>>],
     registry |-> [n \in Names |-> 0],
     messages |-> <<>>, model |-> Undef, sent |-> <<>>,
     thrown |-> NoError, probedFalse |-> {}]

\* (messages and model are the caller's arguments beside options.provider;
\* sent lists the arguments of each adapter generateCompletion call.)
\* (probedFalse holds the fallback candidates whose isAvailable has answered
\* false in this call, in the fallback loop or inside executeWithRetry.)
\* (thrown is the error executeWithRetry has rejected with while the catch of
\* generateCompletion that awaits it has not run yet.)
\* (started and registry record the configuration and the providers Map as
\* they stand when generateCompletion is entered.)
\* The configuration fields as they stand when generateCompletion is entered.
ConfigurationNow ==
    [retryAttempts |-> retryAttempts, retryDelay |-> retryDelay,
     fallbackProviders |-> fallbackProviders]

\* checkProviderAvailability before it is called: the Map iterator's index
\* into the key order, the availability object, and how the promise settled.
IdleQuery ==
    [pc |-> "idle", idx |-> 0, availability |-> [n \in Names |-> "none"],
     outcome |-> "none", probed |-> <<>>]

\* An adapter before it is constructed, and the request it has sent to its vendor.
NoRequest == [system |-> Undef, messages |-> <<>>]
IdleAdapter ==
    [kind |-> "none", apiKey |-> Undef, client |-> FALSE,
     pc |-> "idle", op |-> "none", probe |-> "none", outcome |-> "none",
     conversation |-> <<>>, request |-> NoRequest]

\* The application before LLMModule.forRoot has run and before any chat
\* request: the factory's inputs, the registerProvider calls made before the
\* factory's configure call, the chat request in hand, its response, and what
\* the generateCompletion call behind the response did (its resolved primary,
\* its outcome, the adapter calls it made).
NoChatResponse == [settled |-> "none", provider |-> Undef, text |-> 0]
NoDispatch == [providerName |-> Undef, result |-> NoResult, probes |-> 0, gens |-> 0]
Dispatched(c) ==
    [providerName |-> c.providerName, result |-> c.result,
     probes |-> c.nProbe["A"] + c.nProbe["B"] + c.nProbe["C"],
     gens |-> c.nGen["A"] + c.nGen["B"] + c.nGen["C"]]
IdleApp ==
    [wired |-> FALSE, openaiKey |-> Undef, anthropicKey |-> Undef,
     explicitDefault |-> FALSE, explicitFallbacks |-> FALSE,
     registeredBeforeConfigure |-> <<>>,
     pc |-> "idle", request |-> Undef, response |-> NoChatResponse,
     dispatch |-> NoDispatch]

\* JavaScript truthiness of an optional string.
Truthy(s) == s # Undef /\ s # ""

\* this.providers.get(name)
Get(name) == IF name \in DOMAIN providers THEN providers[name] ELSE 0

\* Variant: the configured default takes precedence over options.provider.
ResolveProviderName_DefaultFirst(opt) == IF Truthy(defaultProvider) THEN defaultProvider ELSE opt

\* Variant: an explicit name that is not registered gives way to the default
\* (this.providers.has(options.provider) ? options.provider : this.defaultProvider).
ResolveProviderName_Substitute(opt) ==
    IF Truthy(opt) /\ Get(opt) # 0 THEN opt ELSE defaultProvider

\* const providerName = options.provider || this.defaultProvider
ResolveProviderName(opt) == IF Truthy(opt) THEN opt ELSE defaultProvider

\* ------------------------------------------------- synchronous code blocks
\* provider.isAvailable() is invoked: at = "probe" inside executeWithRetry,
\* "preprobe" in the fallback loop.
InvokeIsAvailable(c, at) ==
    [c EXCEPT !.pc = at,
              !.pending = @ + 1,
              !.nProbe[c.cur] = @ + 1,
              !.fbProbe[c.cur] = IF c.phase = "fallback" THEN @ + 1 ELSE @,
              !.lastProbe = [at |-> at, provider |-> c.cur, try |-> c.attempt, res |-> "pending"]]

\* Variant: the model option is dropped when the call goes to a fallback
\* candidate ({ ...options, model: undefined }).
InvokeGenerate_ClearModel(c) ==
    [c EXCEPT !.pc = "gen",
              !.pending = @ + 1,
              !.lastGen = c.cur,
              !.nGen[c.cur] = @ + 1,
              !.fbGen[c.cur] = IF c.phase = "fallback" THEN @ + 1 ELSE @,
              !.entries = IF c.phase = "fallback"
                          THEN [@ EXCEPT ![c.fbIdx].gens = @ + 1] ELSE @,
              !.sent = Append(@, [to |-> c.cur, messages |-> c.messages,
                                  options |-> [provider |-> c.optProvider,
                                               model |-> IF c.phase = "fallback"
                                                         THEN Undef ELSE c.model]])]

\* provider.generateCompletion(messages, options) is invoked.
InvokeGenerate(c) ==
    [c EXCEPT !.pc = "gen",
              !.sent = Append(@, [to |-> c.cur, messages |-> c.messages,
                                  options |-> [provider |-> c.optProvider,
                                               model |-> c.model]]),
              !.pending = @ + 1,
              !.lastGen = c.cur,
              !.nGen[c.cur] = @ + 1,
              !.fbGen[c.cur] = IF c.phase = "fallback" THEN @ + 1 ELSE @,
              !.entries = IF c.phase = "fallback"
                          THEN [@ EXCEPT ![c.fbIdx].gens = @ + 1] ELSE @]

\* Variant: the entry naming the primary is not skipped.
SkipCandidates_KeepPrimary(list, i, pname) ==
    LET ok == {j \in i..Len(list) : Get(list[j]) # 0}
    IN  IF ok = {} THEN Len(list) + 1 ELSE CHOOSE j \in ok : \A k \in ok : j <= k

\* Variant: an unregistered entry ends the loop (break) instead of being skipped.
SkipCandidates_BreakOnMissing(list, i, pname) ==
    LET cand == {j \in i..Len(list) : list[j] # pname}
        first == CHOOSE j \in cand : \A k \in cand : j <= k
    IN  IF cand = {} THEN Len(list) + 1
        ELSE IF Get(list[first]) = 0 THEN Len(list) + 1 ELSE first

\* The two `continue` tests of the fallback loop: first index >= i whose entry
\* is neither the primary's name nor unregistered.
RECURSIVE SkipCandidates(_, _, _)
SkipCandidates(list, i, pname) ==
    IF i > Len(list) THEN i
    ELSE IF list[i] = pname \/ Get(list[i]) = 0 THEN SkipCandidates(list, i + 1, pname)
    ELSE i

\* for (const fallbackName of ...) resumed at index i; `throw error` when exhausted.
FallbackLoop(c, i) ==
    LET j == SkipCandidates(c.fbList, i, c.providerName)
    IN  IF j > Len(c.fbList)
        THEN [c EXCEPT !.pc = "done", !.fbIdx = j, !.result = Failure(c.error)]
        ELSE InvokeIsAvailable([c EXCEPT !.fbIdx = j, !.cur = c.fbList[j],
                                         !.curInst = Get(c.fbList[j]), !.attempt = 0,
                                         !.entries[j].status = "active"],
                               "preprobe")

\* The awaited adapter call has settled.
Settled(c) == [c EXCEPT !.pending = @ - 1]

\* The fallback entry in hand is left with outcome s (nothing to leave in the primary phase).
Leave(c, s) ==
    IF c.phase = "fallback" THEN [c EXCEPT !.entries[c.fbIdx].status = s] ELSE c

\* `throw lastError` at the end of executeWithRetry: its promise rejects; the
\* catch of generateCompletion, which awaits it, runs in a later microtask.
RetryThrows(c, err) == [c EXCEPT !.pc = "rejected", !.thrown = err]

\* Variant: the fallback catch keeps the fallback's error as the one to rethrow.
Caught_SurfaceLast(c) ==
    IF c.phase = "primary"
    THEN FallbackLoop([c EXCEPT !.phase = "fallback", !.error = c.thrown,
                                !.lastError = NoError, !.thrown = NoError,
                                !.fbList = fallbackProviders,
                                !.entries = [k \in 1..Len(fallbackProviders) |-> Untouched]],
                      1)
    ELSE FallbackLoop([Leave(c, "failed") EXCEPT !.lastError = NoError, !.error = c.thrown,
                                                 !.thrown = NoError],
                      c.fbIdx + 1)

\* The catch that receives the rejection of executeWithRetry: catch (error)
\* around the primary, which enters the fallback loop over the list as it
\* stands now, or catch (fallbackError) inside the loop, which goes on to the
\* next entry.
Caught(c) ==
    IF c.phase = "primary"
    THEN FallbackLoop([c EXCEPT !.phase = "fallback", !.error = c.thrown,
                                !.lastError = NoError, !.thrown = NoError,
                                !.fbList = fallbackProviders,
                                !.entries = [k \in 1..Len(fallbackProviders) |-> Untouched]],
                      1)
    ELSE FallbackLoop([Leave(c, "failed") EXCEPT !.lastError = NoError, !.thrown = NoError],
                      c.fbIdx + 1)

\* Variant: the loop body runs before the test (do ... while), so there is
\* always a first try.
LoopHead_AtLeastOnce(c) ==
    IF c.attempt <= retryAttempts \/ c.attempt = 1
    THEN InvokeIsAvailable([c EXCEPT !.primaryTries = IF c.phase = "primary" THEN @ + 1 ELSE @],
                           "probe")
    ELSE RetryThrows(c, c.lastError)

\* The loop test attempt <= this.retryAttempts, then the body's first await.
LoopHead(c) ==
    IF c.attempt <= retryAttempts
    THEN InvokeIsAvailable([c EXCEPT !.primaryTries = IF c.phase = "primary" THEN @ + 1 ELSE @],
                           "probe")
    ELSE RetryThrows(c, c.lastError)

\* executeWithRetry(provider, messages, options) up to its first await.
ExecuteWithRetry(c, p, inst) ==
    LoopHead([c EXCEPT !.cur = p, !.curInst = inst, !.attempt = 1, !.lastError = NoError])

\* Variant: constant backoff, this.delay(this.retryDelay).
AttemptFailed_FlatDelay(c, err) ==
    LET c1 == [c EXCEPT !.lastError = err,
                        !.primaryTryError = IF c.phase = "primary" THEN err ELSE @]
    IN  IF c.attempt < retryAttempts
        THEN [c1 EXCEPT !.pc = "delay",
                        !.delays = Append(@, [ms |-> retryDelay,
                                              after |-> c.attempt,
                                              provider |-> c.cur,
                                              phase |-> c.phase])]
        ELSE LoopHead([c1 EXCEPT !.attempt = @ + 1])

\* Variant: the first failed try ends the retry loop (break in the catch).
AttemptFailed_GiveUp(c, err) ==
    LET c1 == [c EXCEPT !.lastError = err,
                        !.primaryTryError = IF c.phase = "primary" THEN err ELSE @]
    IN  RetryThrows(c1, err)

\* Variant: an authentication error is not retried (if auth error: throw).
AttemptFailed_AuthFatal(c, err) ==
    LET c1 == [c EXCEPT !.lastError = err,
                        !.primaryTryError = IF c.phase = "primary" THEN err ELSE @]
    IN  IF err.kind = "auth" THEN RetryThrows(c1, err)
        ELSE IF c.attempt < retryAttempts
        THEN [c1 EXCEPT !.pc = "delay",
                        !.delays = Append(@, [ms |-> retryDelay * c.attempt,
                                              after |-> c.attempt,
                                              provider |-> c.cur,
                                              phase |-> c.phase])]
        ELSE LoopHead([c1 EXCEPT !.attempt = @ + 1])

\* Variant: the catch waits after every failed try, the last one included
\* (if (attempt <= this.retryAttempts)).
AttemptFailed_DelayAlways(c, err) ==
    LET c1 == [c EXCEPT !.lastError = err,
                        !.primaryTryError = IF c.phase = "primary" THEN err ELSE @]
    IN  IF c.attempt <= retryAttempts
        THEN [c1 EXCEPT !.pc = "delay",
                        !.delays = Append(@, [ms |-> retryDelay * c.attempt,
                                              after |-> c.attempt,
                                              provider |-> c.cur,
                                              phase |-> c.phase])]
        ELSE LoopHead([c1 EXCEPT !.attempt = @ + 1])

\* The catch block of executeWithRetry.
AttemptFailed(c, err) ==
    LET c1 == [c EXCEPT !.lastError = err,
                        !.primaryTryError = IF c.phase = "primary" THEN err ELSE @]
    IN  IF c.attempt < retryAttempts
        THEN [c1 EXCEPT !.pc = "delay",
                        !.delays = Append(@, [ms |-> retryDelay * c.attempt,
                                              after |-> c.attempt,
                                              provider |-> c.cur,
                                              phase |-> c.phase])]
        ELSE LoopHead([c1 EXCEPT !.attempt = @ + 1])

\* ------------------------------------------------------------------ actions
Init ==
    /\ providers = [n \in Names |-> 0]
    /\ defaultProvider = Undef
    /\ fallbackProviders = <<>>
    /\ retryAttempts = DefaultRetryAttempts
    /\ retryDelay = DefaultRetryDelay
    /\ call = IdleCall
    /\ regOrder = <<>>
    /\ regLog = <<>>
    /\ other = IdleCall
    /\ logs = [i \in {1, 2} |-> <<>>]
    /\ prior = [i \in {1, 2} |-> "none"]
    /\ listed = <<>>
    /\ query = IdleQuery
    /\ adapter = IdleAdapter
    /\ app = IdleApp

\* Variant: retryAttempts is tested for truthiness like defaultProvider
\* (if (options.retryAttempts)), so 0 is not stored.
Configure_TruthyAttempts(dp, hasFb, fb, hasRa, ra, hasRd, rd) ==
    /\ defaultProvider' = IF Truthy(dp) THEN dp ELSE defaultProvider
    /\ fallbackProviders' = IF hasFb THEN fb ELSE fallbackProviders
    /\ retryAttempts' = IF hasRa /\ ra # 0 THEN ra ELSE retryAttempts
    /\ retryDelay' = IF hasRd THEN rd ELSE retryDelay
    /\ UNCHANGED <<providers, call, bystanders>>

\* Variant: configure stores the option object as a whole, an absent field
\* falling back to its initial value.
Configure_ResetAbsent(dp, hasFb, fb, hasRa, ra, hasRd, rd) ==
    /\ defaultProvider' = IF Truthy(dp) THEN dp ELSE Undef
    /\ fallbackProviders' = IF hasFb THEN fb ELSE <<>>
    /\ retryAttempts' = IF hasRa THEN ra ELSE DefaultRetryAttempts
    /\ retryDelay' = IF hasRd THEN rd ELSE DefaultRetryDelay
    /\ UNCHANGED <<providers, call, bystanders>>

\* configure(options): a field is absent when its has* flag is FALSE
\* (dp = Undef for an absent defaultProvider).
Configure(dp, hasFb, fb, hasRa, ra, hasRd, rd) ==
    /\ defaultProvider' = IF Truthy(dp) THEN dp ELSE defaultProvider
    /\ fallbackProviders' = IF hasFb THEN fb ELSE fallbackProviders
    /\ retryAttempts' = IF hasRa THEN ra ELSE retryAttempts
    /\ retryDelay' = IF hasRd THEN rd ELSE retryDelay
    /\ UNCHANGED <<providers, call, bystanders>>

\* Variant: a name that is already registered keeps its adapter
\* (if (!this.providers.has(name)) set).
RegisterProvider_KeepFirst(name, inst) ==
    /\ providers' = IF Get(name) # 0 THEN providers ELSE [providers EXCEPT ![name] = inst]
    /\ regOrder' = IF Get(name) # 0 THEN regOrder ELSE Append(regOrder, name)
    /\ regLog' = Append(regLog, [name |-> name, inst |-> inst])
    /\ UNCHANGED <<defaultProvider, fallbackProviders, retryAttempts, retryDelay, call,
                   other, logs, prior, listed, query, adapter, app>>

\* Variant: the registry is an array and registerProvider pushes onto it.
RegisterProvider_Push(name, inst) ==
    /\ providers' = [providers EXCEPT ![name] = inst]
    /\ regOrder' = Append(regOrder, name)
    /\ regLog' = Append(regLog, [name |-> name, inst |-> inst])
    /\ UNCHANGED <<defaultProvider, fallbackProviders, retryAttempts, retryDelay, call,
                   other, logs, prior, listed, query, adapter, app>>

\* registerProvider(provider)
RegisterProvider(name, inst) ==
    /\ providers' = [providers EXCEPT ![name] = inst]
    /\ regOrder' = IF Get(name) # 0 THEN regOrder ELSE Append(regOrder, name)
    /\ regLog' = Append(regLog, [name |-> name, inst |-> inst])
    /\ UNCHANGED <<defaultProvider, fallbackProviders, retryAttempts, retryDelay, call,
                   other, logs, prior, listed, query, adapter, app>>

\* Variant: an unregistered primary is treated as a failed primary and the
\* fallback loop runs.
GenerateCompletion_FallsBack(opt) ==
    /\ call.pc \in {"idle", "done"}
    /\ LET name == ResolveProviderName(opt)
           c0 == [IdleCall EXCEPT !.optProvider = opt, !.providerName = name,
                                  !.started = ConfigurationNow, !.registry = providers]
       IN  call' =
             IF ~Truthy(name)
             THEN [c0 EXCEPT !.pc = "done", !.result = Failure(Err("no_provider", Undef, 0))]
             ELSE IF Get(name) = 0
             THEN RetryThrows([c0 EXCEPT !.phase = "primary"], Err("not_found", name, 0))
             ELSE ExecuteWithRetry([c0 EXCEPT !.phase = "primary",
                                              !.primaryProvider = Get(name)],
                                   name, Get(name))
    /\ UNCHANGED <<service, bystanders>>

\* Variant: the service remembers the provider that answered the caller's
\* previous call and dispatches to it first.
StartCall_Sticky(prev, opt) ==
    LET name == IF prev.result.status = "ok" THEN prev.result.provider
                ELSE ResolveProviderName(opt)
        c0 == [IdleCall EXCEPT !.optProvider = opt, !.providerName = name,
                               !.started = ConfigurationNow, !.registry = providers]
    IN  IF ~Truthy(name)
        THEN [c0 EXCEPT !.pc = "done", !.result = Failure(Err("no_provider", Undef, 0))]
        ELSE IF Get(name) = 0
        THEN [c0 EXCEPT !.pc = "done", !.result = Failure(Err("not_found", name, 0))]
        ELSE ExecuteWithRetry([c0 EXCEPT !.phase = "primary",
                                         !.primaryProvider = Get(name)],
                              name, Get(name))

\* The synchronous head of generateCompletion(messages, options): every local
\* is fresh; prev, the caller's previous call, is not read.
StartCall(prev, opt) ==
    LET name == ResolveProviderName(opt)
        c0 == [IdleCall EXCEPT !.optProvider = opt, !.providerName = name,
                               !.started = ConfigurationNow, !.registry = providers]
    IN  IF ~Truthy(name)
        THEN [c0 EXCEPT !.pc = "done", !.result = Failure(Err("no_provider", Undef, 0))]
        ELSE IF Get(name) = 0
        THEN [c0 EXCEPT !.pc = "done", !.result = Failure(Err("not_found", name, 0))]
        ELSE ExecuteWithRetry([c0 EXCEPT !.phase = "primary",
                                         !.primaryProvider = Get(name)],
                              name, Get(name))

\* generateCompletion(messages, options) up to its first await.
GenerateCompletion(opt) ==
    /\ call.pc \in {"idle", "done"}
    /\ call' = StartCall(call, opt)
    /\ UNCHANGED <<service, bystanders>>

\* Variant: the result of isAvailable is not tested; only a throw fails the try.
IsAvailableReturns_IgnoreFalse(r) ==
    /\ call.pc = "probe"
    /\ LET c == [Settled(call) EXCEPT !.lastProbe.res = r,
                             !.nTrue[call.cur] = IF r = "true" THEN @ + 1 ELSE @]
       IN  call' =
             CASE r \in {"true", "false"} -> InvokeGenerate(c)
               [] OTHER -> AttemptFailed(c, Err("probe_threw", c.cur, c.attempt))
    /\ UNCHANGED <<service, bystanders>>

\* The continuation of `await provider.isAvailable()` in executeWithRetry.
ProbeSettled(c0, r) ==
    LET c == [Settled(c0) EXCEPT !.lastProbe.res = r,
                                 !.nTrue[c0.cur] = IF r = "true" THEN @ + 1 ELSE @,
                                 !.probedFalse = IF r = "false" /\ c0.phase = "fallback"
                                                 THEN @ \cup {c0.cur} ELSE @]
    IN  CASE r = "true" -> InvokeGenerate(c)
          [] r = "false" -> AttemptFailed(c, Err("unavailable", c.cur, c.attempt))
          [] OTHER -> AttemptFailed(c, Err("probe_threw", c.cur, c.attempt))

\* generateCompletion(messages, { provider: opt, model }) up to its first await.
GenerateCompletionWith(opt, model, messages) ==
    /\ call.pc \in {"idle", "done"}
    /\ call' = [StartCall(call, opt) EXCEPT !.messages = messages, !.model = model]
    /\ UNCHANGED <<service, bystanders>>

\* await provider.isAvailable() inside executeWithRetry settles with r.
IsAvailableReturns(r) ==
    /\ call.pc = "probe"
    /\ call' = ProbeSettled(call, r)
    /\ UNCHANGED <<service, bystanders>>

\* Variant: the response is relabelled with the resolved primary name.
GenerateReturns_NamesPrimary(r) ==
    /\ call.pc = "gen"
    /\ LET c == Settled(call)
       IN  call' =
             IF r = "ok"
             THEN [Leave(c, "succeeded") EXCEPT !.pc = "done",
                                               !.result = Success(c.providerName)]
             ELSE AttemptFailed(c, Err(r, c.cur, c.attempt))
    /\ UNCHANGED <<service, bystanders>>

\* The continuation of `return await provider.generateCompletion(...)`.
GenerateSettled(c0, r) ==
    LET c == Settled(c0)
    IN  IF r = "ok"
        THEN [Leave(c, "succeeded") EXCEPT !.pc = "done", !.result = Success(c.cur)]
        ELSE AttemptFailed(c, Err(r, c.cur, c.attempt))

\* await provider.generateCompletion(...) settles: r = "ok" or an error kind.
GenerateReturns(r) ==
    /\ call.pc = "gen"
    /\ call' = GenerateSettled(call, r)
    /\ UNCHANGED <<service, bystanders>>

\* Variant: the loop counter is not advanced after the delay.
DelayElapsed_SameAttempt ==
    /\ call.pc = "delay"
    /\ call' = LoopHead(call)
    /\ UNCHANGED <<service, bystanders>>

\* Variant: the loop counter is a field of the service, shared by the calls in flight.
DelaySettled_SharedCounter(c) ==
    LET counter == IF call.attempt >= other.attempt THEN call.attempt ELSE other.attempt
    IN  LoopHead([c EXCEPT !.attempt = counter + 1])

\* The continuation of `await this.delay(...)`: attempt++ and the loop test.
DelaySettled(c) == LoopHead([c EXCEPT !.attempt = @ + 1])

\* await this.delay(...) resolves.
DelayElapsed ==
    /\ call.pc = "delay"
    /\ call' = DelaySettled(call)
    /\ UNCHANGED <<service, bystanders>>

\* Variant: `if (!isAvailable) continue` is missing.
FallbackProbeReturns_IgnoreResult(r) ==
    /\ call.pc = "preprobe"
    /\ LET c == [Settled(call) EXCEPT !.lastProbe.res = r, !.entries[call.fbIdx].pre = r]
       IN  call' =
             CASE r \in {"true", "false"} -> ExecuteWithRetry(c, c.cur, c.curInst)
               [] OTHER -> FallbackLoop(Leave(c, "probe_threw"), c.fbIdx + 1)
    /\ UNCHANGED <<service, bystanders>>

\* Variant: the probe is awaited outside the try block of the fallback loop,
\* so a throwing probe rejects the call.
FallbackProbeSettled_Propagate(c0, r) ==
    LET c == [Settled(c0) EXCEPT !.lastProbe.res = r, !.entries[c0.fbIdx].pre = r,
                                 !.probedFalse = IF r = "false" THEN @ \cup {c0.cur} ELSE @]
    IN  CASE r = "true" -> ExecuteWithRetry(c, c.cur, c.curInst)
          [] r = "false" -> FallbackLoop(Leave(c, "unavailable"), c.fbIdx + 1)
          [] OTHER -> [Leave(c, "probe_threw") EXCEPT
                          !.pc = "done",
                          !.result = Failure(Err("probe_threw", c.cur, 0))]

\* The continuation of `await fallbackProvider.isAvailable()` in the fallback loop.
FallbackProbeSettled(c0, r) ==
    LET c == [Settled(c0) EXCEPT !.lastProbe.res = r, !.entries[c0.fbIdx].pre = r,
                                 !.probedFalse = IF r = "false" THEN @ \cup {c0.cur} ELSE @]
    IN  CASE r = "true" -> ExecuteWithRetry(c, c.cur, c.curInst)
          [] r = "false" -> FallbackLoop(Leave(c, "unavailable"), c.fbIdx + 1)
          [] OTHER -> FallbackLoop(Leave(c, "probe_threw"), c.fbIdx + 1)

\* await fallbackProvider.isAvailable() in the fallback loop settles with r.
FallbackProbeReturns(r) ==
    /\ call.pc = "preprobe"
    /\ call' = FallbackProbeSettled(call, r)
    /\ UNCHANGED <<service, bystanders>>

\* await this.executeWithRetry(...) in generateCompletion settles with a
\* rejection: the catch block runs.
ExecuteWithRetryRejected ==
    /\ call.pc = "rejected"
    /\ call' = Caught(call)
    /\ UNCHANGED <<service, bystanders>>

\* The caller's continuation takes the settled promise; the next call starts afresh.
Return ==
    /\ call.pc = "done"
    /\ call' = IdleCall
    /\ UNCHANGED <<service, bystanders>>

\* getAvailableProviders(): Array.from(this.providers.keys()), the keys in
\* the Map's insertion order.
GetAvailableProviders ==
    /\ listed' = regOrder
    /\ UNCHANGED <<service, call, regOrder, regLog, other, logs, prior, query, adapter, app>>

\* The for-of loop of checkProviderAvailability at Map position i: the next
\* adapter's isAvailable is invoked, or the loop ends and availability is returned.
QueryLoop(q, i) ==
    IF i > Len(regOrder)
    THEN [q EXCEPT !.pc = "done", !.idx = i, !.outcome = "resolved"]
    ELSE [q EXCEPT !.pc = "probing", !.idx = i, !.probed = Append(@, regOrder[i])]

\* checkProviderAvailability() up to its first await.
CheckProviderAvailability ==
    /\ query.pc = "idle"
    /\ query' = QueryLoop(IdleQuery, 1)
    /\ UNCHANGED <<service, call, regOrder, regLog, other, logs, prior, listed, adapter, app>>

\* Variant: an adapter found unavailable is dropped from the registry.
AvailabilityProbeReturns_Prune(r) ==
    /\ query.pc = "probing"
    /\ query' = IF r = "throw"
                THEN [query EXCEPT !.pc = "done", !.outcome = "rejected"]
                ELSE QueryLoop([query EXCEPT !.availability[regOrder[query.idx]] = r],
                               query.idx + 1)
    /\ providers' = IF r = "false" THEN [providers EXCEPT ![regOrder[query.idx]] = 0]
                    ELSE providers
    /\ UNCHANGED <<defaultProvider, fallbackProviders, retryAttempts, retryDelay,
                   call, regOrder, regLog, other, logs, prior, listed, adapter, app>>

\* availability[name] = await provider.isAvailable() settles with r: a thrown
\* error is not caught and rejects the promise of checkProviderAvailability.
AvailabilityProbeReturns(r) ==
    /\ query.pc = "probing"
    /\ query' = IF r = "throw"
                THEN [query EXCEPT !.pc = "done", !.outcome = "rejected"]
                ELSE QueryLoop([query EXCEPT !.availability[regOrder[query.idx]] = r],
                               query.idx + 1)
    /\ UNCHANGED <<service, call, regOrder, regLog, other, logs, prior, listed, adapter, app>>

\* The caller's continuation takes the settled promise of checkProviderAvailability.
QueryReturn ==
    /\ query.pc = "done"
    /\ query' = IdleQuery
    /\ UNCHANGED <<service, call, regOrder, regLog, other, logs, prior, listed, adapter, app>>

\* ----------------------------------------------------------- vendor adapters
\* new OpenAIProvider(apiKey) / new ClaudeProvider(apiKey): the client exists
\* when the key is truthy; new OllamaProvider() takes no key.
NewAdapter(kind, key) ==
    /\ adapter.pc = "idle"
    /\ adapter' = [IdleAdapter EXCEPT !.kind = kind,
                                      !.apiKey = IF kind = "ollama" THEN Undef ELSE key,
                                      !.client = kind # "ollama" /\ Truthy(key)]
    /\ UNCHANGED <<service, call, regOrder, regLog, other, logs, prior, listed, query, app>>

\* The adapter is ready for a call: op is invoked on it, every observation reset.
Invoked(op) ==
    [adapter EXCEPT !.op = op, !.probe = "none", !.outcome = "none",
                    !.conversation = <<>>, !.request = NoRequest]

\* OpenAIProvider.isAvailable() up to its await: false without a client,
\* else this.client.models.list() is awaited.
OpenAIIsAvailable ==
    /\ adapter.kind = "openai"
    /\ adapter.pc = "idle"
    /\ adapter' = IF ~adapter.client
                  THEN [Invoked("isAvailable") EXCEPT !.pc = "done", !.outcome = "false"]
                  ELSE [Invoked("isAvailable") EXCEPT !.pc = "listing"]
    /\ UNCHANGED <<service, call, regOrder, regLog, other, logs, prior, listed, query, app>>

\* Variant: the catch logs and rethrows, as generateCompletion's does.
OpenAIModelsListSettles_Rethrow(r) ==
    /\ adapter.pc = "listing"
    /\ adapter' = [adapter EXCEPT !.pc = "done", !.probe = r,
                                  !.outcome = IF r = "ok" THEN "true" ELSE "throw"]
    /\ UNCHANGED <<service, call, regOrder, regLog, other, logs, prior, listed, query, app>>

\* await this.client.models.list() settles: true, or the catch returns false.
OpenAIModelsListSettles(r) ==
    /\ adapter.pc = "listing"
    /\ adapter' = [adapter EXCEPT !.pc = "done", !.probe = r,
                                  !.outcome = IF r = "ok" THEN "true" ELSE "false"]
    /\ UNCHANGED <<service, call, regOrder, regLog, other, logs, prior, listed, query, app>>

\* ClaudeProvider.isAvailable(): !!this.client && !!this.apiKey, no vendor call.
ClaudeIsAvailable ==
    /\ adapter.kind = "claude"
    /\ adapter.pc = "idle"
    /\ adapter' = [Invoked("isAvailable") EXCEPT
                      !.pc = "done",
                      !.outcome = IF adapter.client /\ Truthy(adapter.apiKey)
                                  THEN "true" ELSE "false"]
    /\ UNCHANGED <<service, call, regOrder, regLog, other, logs, prior, listed, query, app>>

\* OllamaProvider.isAvailable() up to its await: fetch(baseUrl/api/tags).
OllamaIsAvailable ==
    /\ adapter.kind = "ollama"
    /\ adapter.pc = "idle"
    /\ adapter' = [Invoked("isAvailable") EXCEPT !.pc = "fetching"]
    /\ UNCHANGED <<service, call, regOrder, regLog, other, logs, prior, listed, query, app>>

\* await fetch(...) settles: response.ok is returned, a rejection is caught.
OllamaFetchSettles(r) ==
    /\ adapter.pc = "fetching"
    /\ adapter' = [adapter EXCEPT !.pc = "done", !.probe = r,
                                  !.outcome = IF r = "ok" THEN "true" ELSE "false"]
    /\ UNCHANGED <<service, call, regOrder, regLog, other, logs, prior, listed, query, app>>

\* messages.find((msg) => msg.role === 'system')?.content
SystemContent(messages) ==
    LET at == {i \in 1..Len(messages) : messages[i].role = "system"}
    IN  IF at = {} THEN Undef
        ELSE messages[CHOOSE i \in at : \A j \in at : i <= j].content

IsNotSystem(msg) == msg.role # "system"

\* The arguments of this.client.messages.create: the system field and the
\* mapped list of the messages that are not system messages.
ClaudeRequest(messages) ==
    LET userMessages == SelectSeq(messages, IsNotSystem)
    IN  [system |-> SystemContent(messages),
         messages |-> [k \in 1..Len(userMessages) |->
                          [role |-> IF userMessages[k].role = "user"
                                    THEN "user" ELSE "assistant",
                           content |-> userMessages[k].content]]]

\* ClaudeProvider.generateCompletion(messages) up to its await: throws without
\* a client, else sends the request.
ClaudeGenerateCompletion(messages) ==
    /\ adapter.kind = "claude"
    /\ adapter.pc = "idle"
    /\ adapter' = IF ~adapter.client
                  THEN [Invoked("generateCompletion") EXCEPT
                           !.pc = "done", !.conversation = messages,
                           !.outcome = "throw"]
                  ELSE [Invoked("generateCompletion") EXCEPT
                           !.pc = "creating", !.conversation = messages,
                           !.request = ClaudeRequest(messages)]
    /\ UNCHANGED <<service, call, regOrder, regLog, other, logs, prior, listed, query, app>>

\* await this.client.messages.create(...) settles: the response is returned,
\* an error is logged and rethrown.
ClaudeCreateSettles(r) ==
    /\ adapter.pc = "creating"
    /\ adapter' = [adapter EXCEPT !.pc = "done", !.probe = r,
                                  !.outcome = IF r = "ok" THEN "ok" ELSE "throw"]
    /\ UNCHANGED <<service, call, regOrder, regLog, other, logs, prior, listed, query, app>>

\* messages.map((msg) => ({ role: msg.role, content: msg.content })): the
\* message list the OpenAI and Ollama adapters send, with no system field.
PlainRequest(messages) ==
    [system |-> Undef,
     messages |-> [k \in 1..Len(messages) |->
                      [role |-> messages[k].role, content |-> messages[k].content]]]

\* OpenAIProvider.generateCompletion(messages) up to its await: throws without
\* a client, else this.client.chat.completions.create(...) is awaited.
OpenAIGenerateCompletion(messages) ==
    /\ adapter.kind = "openai"
    /\ adapter.pc = "idle"
    /\ adapter' = IF ~adapter.client
                  THEN [Invoked("generateCompletion") EXCEPT
                           !.pc = "done", !.conversation = messages,
                           !.outcome = "throw"]
                  ELSE [Invoked("generateCompletion") EXCEPT
                           !.pc = "completing", !.conversation = messages,
                           !.request = PlainRequest(messages)]
    /\ UNCHANGED <<service, call, regOrder, regLog, other, logs, prior, listed, query, app>>

\* await this.client.chat.completions.create(...) settles: the response is
\* returned, an error is logged and rethrown.
OpenAICompletionsCreateSettles(r) ==
    /\ adapter.pc = "completing"
    /\ adapter' = [adapter EXCEPT !.pc = "done", !.probe = r,
                                  !.outcome = IF r = "ok" THEN "ok" ELSE "throw"]
    /\ UNCHANGED <<service, call, regOrder, regLog, other, logs, prior, listed, query, app>>

\* OllamaProvider.generateCompletion(messages) up to its first await:
\* fetch(baseUrl/api/chat, ...) with the messages in the body.
OllamaGenerateCompletion(messages) ==
    /\ adapter.kind = "ollama"
    /\ adapter.pc = "idle"
    /\ adapter' = [Invoked("generateCompletion") EXCEPT
                      !.pc = "posting", !.conversation = messages,
                      !.request = PlainRequest(messages)]
    /\ UNCHANGED <<service, call, regOrder, regLog, other, logs, prior, listed, query, app>>

\* await fetch(...) settles: with response.ok, response.json() is awaited;
\* a response that is not ok throws `Ollama API error`, which like a
\* rejection of fetch is logged and rethrown by the catch.
OllamaChatSettles(r) ==
    /\ adapter.pc = "posting"
    /\ adapter' = IF r = "ok"
                  THEN [adapter EXCEPT !.pc = "reading", !.probe = r]
                  ELSE [adapter EXCEPT !.pc = "done", !.probe = r, !.outcome = "throw"]
    /\ UNCHANGED <<service, call, regOrder, regLog, other, logs, prior, listed, query, app>>

\* await response.json() settles: the response is returned, a rejection is
\* logged and rethrown.
OllamaJsonSettles(r) ==
    /\ adapter.pc = "reading"
    /\ adapter' = [adapter EXCEPT !.pc = "done",
                                  !.outcome = IF r = "ok" THEN "ok" ELSE "throw"]
    /\ UNCHANGED <<service, call, regOrder, regLog, other, logs, prior, listed, query, app>>

\* The caller takes what the method returned or threw; the adapter keeps its fields.
AdapterReturn ==
    /\ adapter.pc = "done"
    /\ adapter' = [IdleAdapter EXCEPT !.kind = adapter.kind, !.apiKey = adapter.apiKey,
                                      !.client = adapter.client]
    /\ UNCHANGED <<service, call, regOrder, regLog, other, logs, prior, listed, query, app>>

\* ------------------------------------------------------------- application
\* The providers the factory registers, in its order: openai and claude only
\* with a key, ollama always.
FactoryRegistrations(openaiKey, anthropicKey) ==
    (IF Truthy(openaiKey) THEN <<openai>> ELSE <<>>)
        \o (IF Truthy(anthropicKey) THEN <<claude>> ELSE <<>>)
        \o <<ollama>>

\* Variant: without an explicit default the factory configures the first
\* provider it registered.
ForRoot_DefaultRegistered(openaiKey, anthropicKey, optDefault, envDefault, fb, ra, rd) ==
    LET regs == FactoryRegistrations(openaiKey, anthropicKey)
    IN  /\ ~app.wired /\ regLog = <<>> /\ call.pc = "idle"
        /\ providers' = [n \in Names |->
                            IF \E k \in 1..Len(regs) : regs[k] = n THEN 1 ELSE providers[n]]
        /\ regOrder' = regs
        /\ regLog' = [k \in 1..Len(regs) |-> [name |-> regs[k], inst |-> 1]]
        /\ defaultProvider' = IF Truthy(optDefault) THEN optDefault
                              ELSE IF Truthy(envDefault) THEN envDefault ELSE regs[1]
        /\ fallbackProviders' = IF fb # Undef THEN fb ELSE <<ollama, claude, openai>>
        /\ retryAttempts' = IF ra # 0 THEN ra ELSE DefaultRetryAttempts
        /\ retryDelay' = IF rd # 0 THEN rd ELSE DefaultRetryDelay
        /\ app' = [app EXCEPT !.wired = TRUE,
                              !.openaiKey = openaiKey, !.anthropicKey = anthropicKey,
                              !.explicitDefault = Truthy(optDefault) \/ Truthy(envDefault),
                              !.explicitFallbacks = fb # Undef,
                              !.registeredBeforeConfigure = regLog']
        /\ UNCHANGED <<call, other, logs, prior, listed, query, adapter>>

\* The LLM_PROVIDERS factory of LLMModule.forRoot, run once on the new
\* service: the registerProvider calls, then configure with the defaults
\* 'openai', ['ollama', 'claude', 'openai'], 3 and 1000.
ForRoot(openaiKey, anthropicKey, optDefault, envDefault, fb, ra, rd) ==
    LET regs == FactoryRegistrations(openaiKey, anthropicKey)
    IN  /\ ~app.wired /\ regLog = <<>> /\ call.pc = "idle"
        /\ providers' = [n \in Names |->
                            IF \E k \in 1..Len(regs) : regs[k] = n THEN 1 ELSE providers[n]]
        /\ regOrder' = regs
        /\ regLog' = [k \in 1..Len(regs) |-> [name |-> regs[k], inst |-> 1]]
        /\ defaultProvider' = IF Truthy(optDefault) THEN optDefault
                              ELSE IF Truthy(envDefault) THEN envDefault ELSE openai
        /\ fallbackProviders' = IF fb # Undef THEN fb ELSE <<ollama, claude, openai>>
        /\ retryAttempts' = IF ra # 0 THEN ra ELSE DefaultRetryAttempts
        /\ retryDelay' = IF rd # 0 THEN rd ELSE DefaultRetryDelay
        /\ app' = [app EXCEPT !.wired = TRUE,
                              !.openaiKey = openaiKey, !.anthropicKey = anthropicKey,
                              !.explicitDefault = Truthy(optDefault) \/ Truthy(envDefault),
                              !.explicitFallbacks = fb # Undef,
                              !.registeredBeforeConfigure = regLog']
        /\ UNCHANGED <<call, other, logs, prior, listed, query, adapter>>

\* The messages AppService.generateChatResponse builds: the system prompt
\* and the user's message.
ChatMessages ==
    <<[role |-> "system", content |-> "y"], [role |-> "user", content |-> "x"]>>

\* Variant: the chat service passes request.provider as it is and leaves an
\* absent one to the configured default.
GenerateChatResponse_UseDefault(provider) ==
    /\ app.pc \in {"idle", "responded"}
    /\ call.pc \in {"idle", "done"}
    /\ call' = [StartCall(call, provider) EXCEPT !.messages = ChatMessages]
    /\ app' = [app EXCEPT !.pc = "awaiting", !.request = provider,
                          !.response = NoChatResponse, !.dispatch = NoDispatch]
    /\ UNCHANGED <<service, regOrder, regLog, other, logs, prior, listed, query, adapter>>

\* AppService.generateChatResponse(request) up to its await:
\* generateCompletion(messages, { provider: request.provider || 'openai', ... }).
GenerateChatResponse(provider) ==
    /\ app.pc \in {"idle", "responded"}
    /\ call.pc \in {"idle", "done"}
    /\ call' = [StartCall(call, IF Truthy(provider) THEN provider ELSE openai)
                    EXCEPT !.messages = ChatMessages]
    /\ app' = [app EXCEPT !.pc = "awaiting", !.request = provider,
                          !.response = NoChatResponse, !.dispatch = NoDispatch]
    /\ UNCHANGED <<service, regOrder, regLog, other, logs, prior, listed, query, adapter>>

\* Variant: the catch rethrows a configuration error (no provider, provider
\* not found) and substitutes the mock response for the others only.
ChatResponds_RethrowConfiguration(i) ==
    /\ app.pc = "awaiting"
    /\ call.pc = "done"
    /\ app' = [app EXCEPT
                  !.pc = "responded",
                  !.dispatch = Dispatched(call),
                  !.response =
                      IF call.result.status = "ok"
                      THEN [settled |-> "resolved", provider |-> call.result.provider, text |-> 0]
                      ELSE IF call.result.error.kind \in {"no_provider", "not_found"}
                      THEN [settled |-> "rejected", provider |-> Undef, text |-> 0]
                      ELSE [settled |-> "resolved", provider |-> mock, text |-> i]]
    /\ call' = IdleCall
    /\ UNCHANGED <<service, regOrder, regLog, other, logs, prior, listed, query, adapter>>

\* The continuation of the await in generateChatResponse: the response of the
\* dispatch, or in the catch the mock response with the text Math.random picks.
ChatResponds(i) ==
    /\ app.pc = "awaiting"
    /\ call.pc = "done"
    /\ app' = [app EXCEPT
                  !.pc = "responded",
                  !.dispatch = Dispatched(call),
                  !.response =
                      IF call.result.status = "ok"
                      THEN [settled |-> "resolved", provider |-> call.result.provider, text |-> 0]
                      ELSE [settled |-> "resolved", provider |-> mock, text |-> i]]
    /\ call' = IdleCall
    /\ UNCHANGED <<service, regOrder, regLog, other, logs, prior, listed, query, adapter>>

\* Option objects passed to configure: every field optional, fallbackProviders
\* given together with defaultProvider, retryAttempts and retryDelay (as
\* LLMModule.forRoot does).
ConfigureInputs ==
    {o \in [dp : DefaultChoices \cup {"", Undef}, hasFb : BOOLEAN, fb : FallbackLists,
            hasRa : BOOLEAN, ra : RetryChoices, hasRd : BOOLEAN, rd : DelayChoices] :
        /\ (o.hasFb => (Truthy(o.dp) /\ o.hasRa /\ o.hasRd))
        /\ (~o.hasFb => o.fb = <<>>)
        /\ (~o.hasRa => o.ra = 0)}

\* Startup registers the adapters once each in one fixed order, each of them
\* optional (as LLMModule.forRoot does).
WiringOrder == <<"A", "B", "C">>
Position(seq, x) == CHOOSE k \in 1..Len(seq) : seq[k] = x
InWiringOrder(n) ==
    \A k \in 1..Len(regOrder) :
        Position(WiringOrder, regOrder[k]) < Position(WiringOrder, n)

\* Registry and configuration are wired while no call is in flight (they are
\* set at startup and read-only during dispatch); one call is dispatched at a time.
Quiescent == call.pc = "idle"

\* The call is suspended at an await.
InFlight == call.pc \in {"probe", "gen", "delay", "preprobe", "rejected"}

Next ==
    \/ \E o \in ConfigureInputs :
          Quiescent /\ Configure(o.dp, o.hasFb, o.fb, o.hasRa, o.ra, o.hasRd, o.rd)
    \/ \E n \in Names, i \in InstanceIds :
          Quiescent /\ InWiringOrder(n) /\ RegisterProvider(n, i)
    \/ \E opt \in OptionChoices \cup {"", Undef} : GenerateCompletion(opt)
    \/ \E r \in ProbeOutcomes : IsAvailableReturns(r)
    \/ \E r \in {"ok"} \cup CallErrorKinds : GenerateReturns(r)
    \/ DelayElapsed
    \/ \E r \in ProbeOutcomes : FallbackProbeReturns(r)
    \/ ExecuteWithRetryRejected
    \/ Return

Spec == Init /\ [][Next]_vars

\* Every awaited promise settles: an adapter call returns (or throws) and the
\* timer of delay(ms) fires.
\* The awaited promise of the call in flight settles (in at most one of the
\* five ways, by the call's position).  The retry loop treats every thrown
\* error alike, so one error kind stands for all here.
Settle ==
    \/ \E r \in ProbeOutcomes : IsAvailableReturns(r)
    \/ \E r \in {"ok", "network"} : GenerateReturns(r)
    \/ DelayElapsed
    \/ \E r \in ProbeOutcomes : FallbackProbeReturns(r)
    \/ ExecuteWithRetryRejected

\* Calls without options.provider (the configured default) and calls naming
\* another provider.
SettlingOptions == {Undef, "B"}

NextSettling ==
    \/ \E o \in ConfigureInputs :
          Quiescent /\ Configure(o.dp, o.hasFb, o.fb, o.hasRa, o.ra, o.hasRd, o.rd)
    \/ \E n \in Names, i \in InstanceIds :
          Quiescent /\ InWiringOrder(n) /\ RegisterProvider(n, i)
    \/ \E opt \in SettlingOptions : GenerateCompletion(opt)
    \/ Settle
    \/ Return

AwaitsSettle == WF_vars(Settle)

\* Startup wiring with a full option object, at most one fallback entry.
StartupInputs ==
    {o \in ConfigureInputs : o.hasFb /\ o.ra = MaxRetry /\ Len(o.fb) <= 1}

\* Option objects passed to configure while a call is suspended: retryAttempts
\* alone, retryDelay alone, or a full object with another fallback list.
MidFlightInputs ==
    {o \in ConfigureInputs :
        \/ ~o.hasFb /\ o.dp = Undef /\ o.hasRa /\ ~o.hasRd /\ o.ra = 1
        \/ ~o.hasFb /\ o.dp = Undef /\ ~o.hasRa /\ o.hasRd
        \/ o.hasFb /\ o.ra = MaxRetry /\ o.fb = <<"C">>}

\* configure is a public method with no guard: it can run between any two
\* synchronous blocks of a call in flight.
NextReconfigured ==
    \/ \E o \in StartupInputs :
          Quiescent /\ Configure(o.dp, o.hasFb, o.fb, o.hasRa, o.ra, o.hasRd, o.rd)
    \/ \E o \in MidFlightInputs :
          InFlight /\ Configure(o.dp, o.hasFb, o.fb, o.hasRa, o.ra, o.hasRd, o.rd)
    \/ \E n \in Names, i \in InstanceIds :
          Quiescent /\ InWiringOrder(n) /\ RegisterProvider(n, i)
    \/ \E opt \in OptionChoices \cup {"", Undef} : GenerateCompletion(opt)
    \/ Settle
    \/ Return

ReconfiguredSpec == Init /\ [][NextReconfigured]_vars

\* ------------------------------------------------------ interleaved calls
\* Two generateCompletion calls on the same service; the event loop runs one
\* continuation at a time, of either call.
Slot(i) == IF i = 1 THEN call ELSE other

\* What a continuation is resumed with: the options of a new call, or the
\* value an awaited promise settled with.
CallEvents ==
    [kind : {"start"}, v : OptionChoices \cup {Undef}]
        \cup [kind : {"probe", "preprobe"}, v : ProbeOutcomes]
        \cup [kind : {"gen"}, v : {"ok", "network"}]
        \cup [kind : {"delay"}, v : {"elapsed"}]
        \cup [kind : {"rejected"}, v : {"caught"}]

CanRun(c, ev) ==
    IF ev.kind = "start" THEN c.pc \in {"idle", "done"} ELSE c.pc = ev.kind

Run(c, ev) ==
    CASE ev.kind = "start" -> StartCall(c, ev.v)
      [] ev.kind = "probe" -> ProbeSettled(c, ev.v)
      [] ev.kind = "gen" -> GenerateSettled(c, ev.v)
      [] ev.kind = "delay" -> DelaySettled(c)
      [] ev.kind = "preprobe" -> FallbackProbeSettled(c, ev.v)
      [] ev.kind = "rejected" -> Caught(c)

\* A continuation of call i runs with event ev; the event is recorded for the
\* call, and at a start the outcome of the caller's previous call.
Continuation(i, ev) ==
    /\ CanRun(Slot(i), ev)
    /\ call' = IF i = 1 THEN Run(call, ev) ELSE call
    /\ other' = IF i = 2 THEN Run(other, ev) ELSE other
    /\ logs' = [logs EXCEPT ![i] = IF ev.kind = "start" THEN <<ev>> ELSE Append(@, ev)]
    /\ prior' = [prior EXCEPT ![i] = IF ev.kind = "start" THEN Slot(i).result.status ELSE @]
    /\ UNCHANGED <<service, regOrder, regLog, listed, query, adapter, app>>

\* Configuration and registry stay fixed once the first call has been issued.
NeverCalled == call.pc = "idle" /\ other.pc = "idle"

\* Full option objects: the largest retryAttempts without fallbacks, or one
\* try and one fallback entry.
InterleavedInputs ==
    {o \in ConfigureInputs :
        /\ o.hasFb
        /\ \/ o.ra = MaxRetry /\ o.fb = <<>>
           \/ o.ra = 1 /\ o.fb = <<"B">>}

NextInterleaved ==
    \/ \E o \in InterleavedInputs :
          NeverCalled /\ Configure(o.dp, o.hasFb, o.fb, o.hasRa, o.ra, o.hasRd, o.rd)
    \/ \E n \in OptionChoices, i \in InstanceIds :
          NeverCalled /\ InWiringOrder(n) /\ RegisterProvider(n, i)
    \/ \E i \in {1, 2}, ev \in CallEvents :
          Truthy(defaultProvider) /\ Continuation(i, ev)

InterleavedSpec == Init /\ [][NextInterleaved]_vars

\* ------------------------------------------------ registry and its queries
\* Adapters are registered, in any order and repeatedly, while nothing is in
\* flight; the two queries run at any time, also between the continuations of
\* a generateCompletion call.
AllQuiet == call.pc = "idle" /\ query.pc = "idle"

\* One full option object: one try, fallback to B (so the call beside the
\* queries awaits adapter calls only, never a delay).
RegistryInputs ==
    {o \in ConfigureInputs : o.hasFb /\ o.ra = 1 /\ o.fb = <<"B">>}

NextRegistry ==
    \/ \E a \in Adapters :
          /\ AllQuiet
          /\ Len(regLog) < MaxRegistrations
          /\ RegisterProvider(a.name, a.inst)
    \/ \E o \in RegistryInputs :
          AllQuiet /\ Configure(o.dp, o.hasFb, o.fb, o.hasRa, o.ra, o.hasRd, o.rd)
    \/ GetAvailableProviders
    \/ CheckProviderAvailability
    \/ \E r \in ProbeOutcomes : AvailabilityProbeReturns(r)
    \/ QueryReturn
    \/ Truthy(defaultProvider) /\ GenerateCompletion(Undef)
    \/ \E r \in ProbeOutcomes : IsAvailableReturns(r)
    \/ \E r \in {"ok", "network"} : GenerateReturns(r)
    \/ \E r \in ProbeOutcomes : FallbackProbeReturns(r)
    \/ ExecuteWithRetryRejected
    \/ Return

RegistrySpec == Init /\ [][NextRegistry]_vars

FairSpec == Init /\ [][NextSettling]_vars /\ AwaitsSettle

\* ------------------------------------------- registration during a call
\* registerProvider is a public method with no guard: after the startup
\* wiring it can run between any two synchronous blocks of a call in flight,
\* adding an adapter or replacing one (a second instance under the same name).
NextReregistered ==
    \/ \E o \in StartupInputs :
          Quiescent /\ Configure(o.dp, o.hasFb, o.fb, o.hasRa, o.ra, o.hasRd, o.rd)
    \/ \E n \in Names, i \in InstanceIds :
          Quiescent /\ InWiringOrder(n) /\ RegisterProvider(n, i)
    \/ \E a \in Adapters :
          /\ InFlight
          /\ Len(regLog) < MaxRegistrations
          /\ RegisterProvider(a.name, a.inst)
    \/ \E opt \in OptionChoices \cup {"", Undef} : GenerateCompletion(opt)
    \/ Settle
    \/ Return

ReregisteredSpec == Init /\ [][NextReregistered]_vars

\* ------------------------------------------------------ the wired application
\* The factory wires the service once; then direct generateCompletion calls
\* and chat requests are served, one at a time.
NextWired ==
    \/ \E o \in ForRootInputs :
          ForRoot(o.openaiKey, o.anthropicKey, o.optDefault, o.envDefault, o.fb, o.ra, o.rd)
    \/ \E provider \in ChatProviderChoices : app.wired /\ GenerateChatResponse(provider)
    \/ \E i \in MockResponses : ChatResponds(i)
    \/ \E opt \in {Undef, ollama} :
          app.wired /\ app.pc = "idle" /\ GenerateCompletion(opt)
    \/ Settle
    \/ app.pc # "awaiting" /\ Return

WiredSpec == Init /\ [][NextWired]_vars

\* ------------------------------------------------- the caller's arguments
\* Calls with a model option and messages, after startup wiring with a full
\* option object.
NextArguments ==
    \/ \E o \in StartupInputs :
          Quiescent /\ Configure(o.dp, o.hasFb, o.fb, o.hasRa, o.ra, o.hasRd, o.rd)
    \/ \E n \in Names, i \in InstanceIds :
          Quiescent /\ InWiringOrder(n) /\ RegisterProvider(n, i)
    \/ \E opt \in OptionChoices \cup {Undef}, model \in ModelChoices, messages \in MessageChoices :
          Truthy(defaultProvider) /\ GenerateCompletionWith(opt, model, messages)
    \/ Settle
    \/ Return

ArgumentsSpec == Init /\ [][NextArguments]_vars

\* ------------------------------------------------ unvalidated retryAttempts
\* configure stores any number as retryAttempts: full option objects with a
\* negative count, zero, or the largest count.
UnvalidatedInputs ==
    [dp : DefaultChoices, hasFb : {TRUE}, fb : FallbackLists,
     hasRa : {TRUE}, ra : {-1, 0, MaxRetry}, hasRd : {TRUE}, rd : DelayChoices]

NextUnvalidated ==
    \/ \E o \in UnvalidatedInputs :
          Quiescent /\ Configure(o.dp, o.hasFb, o.fb, o.hasRa, o.ra, o.hasRd, o.rd)
    \/ \E n \in Names, i \in InstanceIds :
          Quiescent /\ InWiringOrder(n) /\ RegisterProvider(n, i)
    \/ \E opt \in OptionChoices \cup {Undef} :
          Truthy(defaultProvider) /\ GenerateCompletion(opt)
    \/ Settle
    \/ Return

UnvalidatedSpec == Init /\ [][NextUnvalidated]_vars

\* ------------------------------------------------------- one adapter alone
\* An adapter is constructed and its two methods are called, one call at a time.
NextAdapter ==
    \/ \E kind \in AdapterKinds, key \in ApiKeys : NewAdapter(kind, key)
    \/ OpenAIIsAvailable
    \/ \E r \in ModelsListOutcomes : OpenAIModelsListSettles(r)
    \/ ClaudeIsAvailable
    \/ OllamaIsAvailable
    \/ \E r \in FetchOutcomes : OllamaFetchSettles(r)
    \/ \E messages \in Conversations : ClaudeGenerateCompletion(messages)
    \/ \E r \in CreateOutcomes : ClaudeCreateSettles(r)
    \/ \E messages \in Conversations : OpenAIGenerateCompletion(messages)
    \/ \E r \in CreateOutcomes : OpenAICompletionsCreateSettles(r)
    \/ \E messages \in Conversations : OllamaGenerateCompletion(messages)
    \/ \E r \in FetchOutcomes : OllamaChatSettles(r)
    \/ \E r \in JsonOutcomes : OllamaJsonSettles(r)
    \/ AdapterReturn

AdapterSpec == Init /\ [][NextAdapter]_vars

\* ================================================================= claims
Names3Gen == call.nGen["A"] + call.nGen["B"] + call.nGen["C"]
Names3Probe == call.nProbe["A"] + call.nProbe["B"] + call.nProbe["C"]
Finished == call.pc = "done"
Succeeded == Finished /\ call.result.status = "ok"
Rejected == Finished /\ call.result.status = "error"
EntryIndices == 1..Len(call.entries)
\* The two tests under which the fallback loop passes over entry j.
Skippable(j) == call.fbList[j] = call.providerName \/ Get(call.fbList[j]) = 0
LeftBehind(j) == call.entries[j].status \in {"unavailable", "probe_threw", "failed"}

\* C1: in the fallback phase every fallback candidate receives at most one
\* generateCompletion call and no backoff delay is spent on a fallback
\* candidate (the retry budget applies to the primary only).
C1_FallbackSingleShot ==
    /\ \A j \in EntryIndices : call.entries[j].gens <= 1
    /\ \A k \in 1..Len(call.delays) : call.delays[k].phase # "fallback"

\* The error a rejected call carries, read as the claim of C2 reads it: the
\* name of its class, and its cause (undefined for an error that wraps nothing).
ExhaustionErrorName == "AllProvidersExhaustedError"
ErrorName(e) == IF "name" \in DOMAIN e THEN e.name ELSE "Error"
CauseOf(e) == IF "cause" \in DOMAIN e THEN e.cause ELSE NoError

\* C2: when the primary's tries and every fallback candidate have failed, the
\* call fails with an AllProvidersExhaustedError whose cause is the error of
\* the primary's final try; the error of a fallback candidate is never the
\* error, or the cause, the caller receives.
C2_ExhaustionErrorCarriesPrimaryFinal ==
    (Rejected /\ call.phase = "fallback" /\ call.primaryTries > 0) =>
        /\ ErrorName(call.result.error) = ExhaustionErrorName
        /\ CauseOf(call.result.error) = call.primaryTryError
        /\ \A j \in EntryIndices : call.entries[j].status # "succeeded"

\* What the code does in the case of C2: the error the caller receives is
\* the error object of the primary's final try itself, unwrapped, never the
\* error of a fallback candidate.
C2_SurfacedErrorIsPrimaryFinal ==
    (Rejected /\ call.phase = "fallback") =>
        /\ call.result.error = call.primaryTryError
        /\ \A j \in EntryIndices : call.entries[j].status # "succeeded"
        /\ (call.primaryTries > 0 =>
              /\ call.result.error.src = call.providerName
              /\ call.result.error.try = call.primaryTries
              /\ call.result.error.kind \in {"unavailable", "probe_threw"} \cup CallErrorKinds)

C2_Witness ==
    /\ Rejected /\ call.phase = "fallback" /\ call.primaryTries = 2
    /\ \E j \in EntryIndices : call.entries[j].status = "failed" /\ call.entries[j].gens > 0

\* C3: a missing or unregistered primary name makes the call fail at once with
\* the configuration error: no isAvailable, no generateCompletion, no delay,
\* no fallback candidate tried.
C3_UnresolvedPrimaryFailsAtOnce ==
    LET name == IF call.optProvider \notin {Undef, ""} THEN call.optProvider
                ELSE defaultProvider
    IN  (call.pc # "idle" /\ (name \in {Undef, ""} \/ Get(name) = 0)) =>
            /\ Rejected
            /\ call.result.error.kind \in {"no_provider", "not_found"}
            /\ call.nProbe = ZeroCount /\ call.nGen = ZeroCount
            /\ call.delays = <<>>
            /\ call.phase = "none" /\ call.entries = <<>>

C3_Witness ==
    /\ Rejected /\ call.optProvider = "B" /\ Get("B") = 0
    /\ defaultProvider = "A" /\ Get("A") # 0
    /\ fallbackProviders = <<"C">> /\ Get("C") # 0

\* C4: the primary is options.provider when present and non-empty, else the
\* configured defaultProvider, and the retry loop of the primary phase runs
\* against that provider and no other.
C4_PrimaryResolution ==
    LET expected == IF call.optProvider # Undef /\ call.optProvider # "" THEN call.optProvider
                    ELSE defaultProvider
    IN  call.pc # "idle" =>
            /\ call.providerName = expected
            /\ (call.phase = "primary" => call.cur = expected)
            /\ \A p \in Names \ {expected} :
                  call.nProbe[p] = call.fbProbe[p] /\ call.nGen[p] = call.fbGen[p]
            /\ (call.primaryTries > 0 =>
                  call.nProbe[expected] - call.fbProbe[expected] = call.primaryTries)

C4_Witness ==
    /\ call.optProvider = "B" /\ defaultProvider = "A" /\ Get("A") # 0
    /\ call.phase = "primary" /\ call.nGen["B"] > 0

\* C5: when the primary succeeds on its first try the call returns after
\* exactly one generateCompletion call, result.provider is the primary's name,
\* no delay occurred and no fallback provider was probed or called.
C5_FirstTrySuccess ==
    (Succeeded /\ call.phase = "primary" /\ call.primaryTries = 1) =>
        /\ Names3Gen = 1 /\ call.nGen[call.providerName] = 1
        /\ Names3Probe = 1
        /\ call.result.provider = call.providerName
        /\ call.delays = <<>>
        /\ call.fbProbe = ZeroCount /\ call.fbGen = ZeroCount /\ call.entries = <<>>

C5_Witness ==
    /\ Succeeded /\ call.primaryTries = 1 /\ call.optProvider = Undef
    /\ call.providerName = "A" /\ fallbackProviders = <<"B">> /\ Get("B") # 0

\* C6: when the primary fails k < retryAttempts times and then succeeds, the
\* result names the primary, exactly k delays occurred, and the delay after
\* the i-th failed try is at least retryDelay * i.
C6_RetryThenSuccess ==
    (Succeeded /\ call.phase = "primary") =>
        LET k == call.primaryTries - 1
        IN  /\ k >= 0 /\ k < retryAttempts
            /\ call.result.provider = call.providerName
            /\ Len(call.delays) = k
            /\ \A i \in 1..k :
                  /\ call.delays[i].after = i
                  /\ call.delays[i].provider = call.providerName
                  /\ call.delays[i].ms >= retryDelay * i

C6_Witness ==
    /\ Succeeded /\ call.phase = "primary" /\ call.primaryTries = 3
    /\ Len(call.delays) = 2

\* C7: after the primary failed all its tries, the primary receives no
\* isAvailable or generateCompletion call in the fallback phase, also when
\* its name is listed in fallbackProviders, and when the first fallback
\* candidate succeeds the result names that candidate.
C7_PrimaryNotRetriedInFallback ==
    call.phase = "fallback" =>
        /\ call.providerName \in Names
        /\ call.primaryTries = retryAttempts
        /\ call.fbProbe[call.providerName] = 0 /\ call.fbGen[call.providerName] = 0
        /\ \A j \in EntryIndices :
              call.fbList[j] = call.providerName => call.entries[j] = Untouched
        /\ LET cand == {j \in EntryIndices : ~Skippable(j)}
           IN  \A j \in cand :
                  ((\A k \in cand : j <= k) /\ call.entries[j].status = "succeeded") =>
                      /\ Succeeded
                      /\ call.result.provider = call.fbList[j]
                      /\ call.result.provider # call.providerName

C7_Witness ==
    /\ Succeeded /\ call.phase = "fallback" /\ call.primaryTries = 2
    /\ call.providerName = "B" /\ call.fbList = <<"B", "C">>
    /\ call.result.provider = "C"

\* C8: fallback candidates are taken strictly in the configured order: an
\* entry is probed or called only after every earlier entry was skipped or has
\* failed, the first success ends the call with no later entry touched, and an
\* unregistered entry is skipped without an error.
C8_FallbackOrder ==
    call.phase = "fallback" =>
        /\ call.fbList = fallbackProviders /\ Len(call.entries) = Len(call.fbList)
        /\ \A j \in EntryIndices :
              /\ Skippable(j) => call.entries[j] = Untouched
              /\ call.entries[j].status # "untouched" =>
                    \A i \in 1..(j - 1) : Skippable(i) \/ LeftBehind(i)
              /\ call.entries[j].status = "active" => (j = call.fbIdx /\ ~Finished)
              /\ call.entries[j].status = "succeeded" =>
                    /\ Succeeded /\ call.result.provider = call.fbList[j]
                    /\ \A k \in (j + 1)..Len(call.entries) : call.entries[k] = Untouched
        /\ \A p \in Names :
              call.fbProbe[p] > 0 =>
                  \E j \in EntryIndices : call.fbList[j] = p /\ call.entries[j].status # "untouched"
        /\ (Rejected =>
              /\ \A j \in EntryIndices : Skippable(j) \/ LeftBehind(j)
              /\ call.result.error.kind # "not_found")

C8_Witness ==
    /\ Succeeded /\ call.fbList = <<"B", "C">> /\ call.providerName = "A"
    /\ Get("B") = 0 /\ call.entries[2].status = "succeeded"

\* What the code does in the case of C9: a fallback entry whose probe in the
\* fallback loop returns false gets no generateCompletion call and the loop
\* goes on to the next entry; with default A, fallback [B, C], retryAttempts
\* 2, A failing two calls, B unavailable and C succeeding, the result names C
\* after 3 generateCompletion calls (2 on A, 0 on B, 1 on C).
C9_UnavailableCandidateSkipped ==
    /\ \A j \in EntryIndices :
          call.entries[j].pre = "false" =>
              /\ call.entries[j].gens = 0
              /\ call.entries[j].status = "unavailable"
              /\ call.fbIdx > j
              /\ \A k \in (j + 1)..Len(call.entries) :
                    (~Skippable(k) /\ \A m \in (j + 1)..(k - 1) : Skippable(m)) =>
                        call.entries[k].status # "untouched"
    /\ ( /\ Finished /\ call.providerName = "A" /\ defaultProvider = "A"
         /\ call.fbList = <<"B", "C">> /\ retryAttempts = 2
         /\ call.primaryTryError.kind \in CallErrorKinds /\ call.nGen["A"] = 2
         /\ call.entries[1].pre = "false"
         /\ call.entries[2].gens = 1 /\ call.entries[2].status = "succeeded" )
       => ( /\ call.result = Success("C")
            /\ call.nGen = [n \in Names |-> CASE n = "A" -> 2 [] n = "B" -> 0 [] OTHER -> 1]
            /\ Names3Gen = 3 )

C9_Witness ==
    /\ Succeeded /\ call.providerName = "A" /\ defaultProvider = "A" /\ call.optProvider = Undef
    /\ call.fbList = <<"B", "C">> /\ retryAttempts = 2 /\ retryDelay = 10
    /\ call.nGen["A"] = 2 /\ call.entries[1].pre = "false"
    /\ call.entries[2].gens = 1 /\ call.result.provider = "C"

\* C9: a fallback candidate whose isAvailable probe has returned false in
\* this call, at the fallback loop's probe or at a probe of its tries,
\* receives no generateCompletion call in this call, and the iteration goes
\* on to the next candidate; in the scenario default A, fallback [B, C],
\* retryAttempts 2, with A failing twice, B unavailable and C succeeding, the
\* result names C after 3 generateCompletion calls (2 on A, 0 on B, 1 on C).
C9_ProbedFalseNeverCalled ==
    /\ \A n \in Names : n \in call.probedFalse => call.fbGen[n] = 0
    /\ C9_UnavailableCandidateSkipped

\* C10: in the retry loop every try first calls isAvailable; a false probe
\* uses up one try of the retryAttempts budget without a generateCompletion
\* call, so generateCompletion is only called directly after a true probe of
\* the same provider in the same try.
C10_ProbeBeforeGenerate ==
    /\ call.pc = "gen" =>
          call.lastProbe = [at |-> "probe", provider |-> call.cur,
                            try |-> call.attempt, res |-> "true"]
    /\ \A p \in Names : call.nGen[p] = call.nTrue[p]
    /\ (call.phase = "primary" /\ call.pc \in {"probe", "gen", "delay"}) =>
          /\ call.attempt \in 1..retryAttempts
          /\ call.primaryTries = call.attempt
          /\ call.nProbe[call.providerName] = call.attempt
    /\ (call.pc = "delay" /\ call.lastError.kind = "unavailable") =>
          /\ call.lastProbe.res = "false" /\ call.lastProbe.try = call.attempt
          /\ call.lastProbe.provider = call.cur
    /\ call.phase = "fallback" =>
          call.nProbe[call.providerName] - call.fbProbe[call.providerName] = retryAttempts

C10_Witness ==
    /\ call.phase = "primary" /\ call.pc = "gen" /\ call.attempt = 2
    /\ call.nProbe[call.cur] = 2 /\ call.nGen[call.cur] = 1

\* C11: whenever the call returns a result, result.provider is the name of the
\* adapter whose generateCompletion was invoked last in that call, be it the
\* primary or a fallback candidate.
C11_ResultNamesProducer ==
    Succeeded =>
        /\ call.result.provider = call.lastGen
        /\ call.nGen[call.lastGen] >= 1
        /\ \/ call.phase = "primary" /\ call.lastGen = call.providerName
           \/ /\ call.phase = "fallback"
              /\ call.fbIdx \in EntryIndices
              /\ call.lastGen = call.fbList[call.fbIdx]
              /\ call.lastGen # call.providerName

\* A fallback candidate produced the result of a call that asked for another provider.
C11_Witness ==
    /\ Succeeded
    /\ call.phase = "fallback"
    /\ Truthy(call.optProvider)
    /\ call.result.provider # call.optProvider
    /\ call.result.provider = call.lastGen

\* Adapter calls one dispatch can make: retryAttempts tries of the primary,
\* then per fallback entry the loop's probe and retryAttempts tries.
ProbeBudget == retryAttempts + Len(call.fbList) * (retryAttempts + 1)

\* C12: a call that is in flight eventually ends, provided every awaited
\* adapter call and delay settles; it ends with exactly one outcome (a result
\* or an error, nothing before the end); its adapter calls stay within the
\* budget of retryAttempts tries per candidate; and an error of the dispatch
\* reaches the caller only after the primary has used all its tries and every
\* fallback entry has been passed over or has failed.
C12_OneOutcomeEventually ==
    /\ [](/\ (~Finished => call.result = NoResult)
          /\ (Finished => \/ /\ call.result.status = "ok"
                              /\ call.result.error = NoError
                              /\ call.result.provider \in Names
                           \/ /\ call.result.status = "error"
                              /\ call.result.provider = Undef)
          /\ call.primaryTries <= retryAttempts
          /\ call.attempt <= retryAttempts + 1
          /\ Names3Probe <= ProbeBudget
          /\ ((Rejected /\ call.phase # "none") =>
                  /\ call.phase = "fallback"
                  /\ call.primaryTries = retryAttempts
                  /\ call.fbIdx = Len(call.fbList) + 1
                  /\ \A j \in EntryIndices : Skippable(j) \/ LeftBehind(j)))
    /\ (InFlight ~> Finished)

\* A call ends with an error after a retried primary and a tried fallback candidate.
C12_Witness ==
    /\ Rejected
    /\ call.primaryTries >= 2
    /\ Len(call.delays) >= 1
    /\ \E j \in EntryIndices : call.entries[j].status = "failed"

\* C13: at most one adapter call of the dispatch is outstanding at any time,
\* and exactly when the dispatch is suspended at an adapter call; while the
\* primary is being tried no other adapter has been probed or called, and the
\* fallback phase starts only after the primary has used all retryAttempts tries.
C13_SequentialPrimaryFirst ==
    /\ call.pending \in {0, 1}
    /\ (call.pending = 1) = (call.pc \in {"probe", "gen", "preprobe"})
    /\ (call.phase = "primary" =>
            /\ \A n \in Names \ {call.providerName} : call.nProbe[n] = 0 /\ call.nGen[n] = 0
            /\ call.entries = <<>>)
    /\ (call.phase = "fallback" =>
            /\ call.primaryTries = retryAttempts
            /\ call.nProbe[call.providerName] = retryAttempts)

\* A fallback candidate is being probed after the primary used two tries.
C13_Witness ==
    /\ call.pc = "preprobe"
    /\ call.pending = 1
    /\ call.primaryTries = 2
    /\ call.nProbe[call.providerName] = 2
    /\ call.fbProbe[call.cur] = 1

\* C14: a call uses the configuration in effect when it started: its number of
\* primary tries, its backoff delays and its fallback candidates are those of
\* the configuration read at entry, whatever configure does while it is suspended.
C14_ConfigurationSnapshot ==
    /\ call.primaryTries <= call.started.retryAttempts
    /\ (call.phase = "fallback" =>
            /\ call.primaryTries = call.started.retryAttempts
            /\ call.fbList = call.started.fallbackProviders)
    /\ \A k \in 1..Len(call.delays) :
            call.delays[k].ms = call.started.retryDelay * call.delays[k].after

\* C15: with configuration and registry fixed, a call's state (its outcome,
\* its adapter calls, its try counter and every other local) is determined by
\* its options and the adapter responses it received, however its
\* continuations are interleaved with those of another call: two calls that
\* received the same events are in the same state.
C15_InterleavingIndependent ==
    (logs[1] = logs[2]) => (call = other)

\* Both calls are suspended at a backoff delay at the same time, after the same responses.
C15_Witness ==
    /\ logs[1] = logs[2]
    /\ call.pc = "delay"
    /\ other.pc = "delay"
    /\ call.nGen[call.cur] >= 1

\* C16: nothing is carried from one call to the next: a call issued after a
\* call that succeeded or failed, and a call issued after a different past
\* (or none), make the same adapter calls in the same order, wait the same
\* delays and return the same provider or the same error when they are given
\* the same options and the same adapter responses under the same
\* configuration and registry.
C16_NoStateAcrossCalls ==
    (logs[1] = logs[2] /\ prior[1] # prior[2]) =>
        /\ call.providerName = other.providerName
        /\ call.pc = other.pc /\ call.cur = other.cur /\ call.attempt = other.attempt
        /\ call.nProbe = other.nProbe /\ call.nGen = other.nGen
        /\ call.entries = other.entries
        /\ call.delays = other.delays
        /\ call.result = other.result

\* A first call and a call that follows a failed one have both ended, after
\* the same responses, having called an adapter.
C16_Witness ==
    /\ logs[1] = logs[2]
    /\ prior[1] = "none" /\ prior[2] = "error"
    /\ call.pc = "done" /\ other.pc = "done"
    /\ Names3Gen >= 1
    /\ call.result = other.result

\* The adapter registered last under name n (0: none), read off the log of
\* registerProvider calls.
LastRegistered(n) ==
    LET at == {k \in 1..Len(regLog) : regLog[k].name = n}
    IN  IF at = {} THEN 0 ELSE regLog[CHOOSE k \in at : \A j \in at : j <= k].inst
RegisteredNames == {n \in Names : Get(n) # 0}

\* C17: registerProvider can always be called; after any sequence of
\* registrations the registry holds, for every name registered, exactly one
\* adapter, the one registered last under that name, and nothing for a name
\* never registered; registering again the adapter a name already maps to
\* changes neither the mapping nor the key order.
C17_RegisterIsUpsert ==
    /\ [](/\ \A n \in Names : Get(n) = LastRegistered(n)
          /\ Len(regOrder) = Cardinality(RegisteredNames)
          /\ {regOrder[k] : k \in 1..Len(regOrder)} = RegisteredNames
          /\ \A a \in Adapters : ENABLED RegisterProvider(a.name, a.inst))
    /\ [][\A a \in Adapters :
             (RegisterProvider(a.name, a.inst) /\ Get(a.name) = a.inst) =>
                 (providers' = providers /\ regOrder' = regOrder)]_vars

\* Name A was registered twice with different adapters and the second is in the registry.
C17_Witness ==
    /\ \E j, k \in 1..Len(regLog) :
          /\ j < k
          /\ regLog[j] = [name |-> "A", inst |-> 1]
          /\ regLog[k] = [name |-> "A", inst |-> 2]
    /\ Get("A") = 2
    /\ Get("B") # 0

\* The names of a registration log in the order of their first registration.
FirstRegistrations(log) ==
    LET F[k \in 0..Len(log)] ==
            IF k = 0 THEN <<>>
            ELSE IF \E j \in 1..(k - 1) : log[j].name = log[k].name
                 THEN F[k - 1]
                 ELSE Append(F[k - 1], log[k].name)
    IN  F[Len(log)]

\* C18: what getAvailableProviders returns holds every registered name
\* exactly once and no other name, in the order in which the names were first
\* registered; registering a name again adds no entry.
C18_ListInRegistrationOrder ==
    [][(GetAvailableProviders \/ listed' # listed) =>
          /\ listed' = FirstRegistrations(regLog)
          /\ \A j, k \in 1..Len(listed') : (j # k) => (listed'[j] # listed'[k])
          /\ {listed'[k] : k \in 1..Len(listed')} = RegisteredNames]_vars

\* Two names are listed after three registrations, the first name registered twice.
C18_Witness ==
    /\ Len(regLog) = 3
    /\ regLog[3].name = regLog[1].name
    /\ regLog[2].name # regLog[1].name
    /\ listed = <<regLog[1].name, regLog[2].name>>

\* C19: checkProviderAvailability ends by returning an object with one
\* boolean entry for every registered provider, every registered adapter
\* having been probed once in registry order, also when the probe of one of
\* the adapters throws.
C19_ProbeFailureIsolated ==
    (query.pc = "done") =>
        /\ query.outcome = "resolved"
        /\ query.probed = regOrder
        /\ \A n \in Names :
              IF Get(n) # 0 THEN query.availability[n] \in {"true", "false"}
              ELSE query.availability[n] = "none"

\* A step of one of the two queries: getAvailableProviders, or a step of checkProviderAvailability.
QueryStep ==
    \/ GetAvailableProviders
    \/ listed' # listed
    \/ query' # query

\* C20: a step of getAvailableProviders or checkProviderAvailability changes
\* neither the registry (names, adapters, key order) nor the configuration,
\* nor the state of a generateCompletion call in flight; a step of that call
\* changes nothing of the queries; and checkProviderAvailability is rejected
\* only by a throw of the adapter probe it was awaiting, never by the call
\* that runs beside it.
C20_QueriesArePure ==
    /\ [][QueryStep =>
             /\ UNCHANGED <<providers, regOrder, regLog>>
             /\ UNCHANGED <<defaultProvider, fallbackProviders, retryAttempts, retryDelay>>
             /\ call' = call]_vars
    /\ [][(call' # call) => (query' = query /\ listed' = listed)]_vars
    /\ [][(query'.outcome = "rejected" /\ query.outcome # "rejected") =>
             /\ query.pc = "probing"
             /\ call' = call
             /\ query'.availability = query.availability]_vars

\* checkProviderAvailability has stored one adapter's answer and awaits the
\* probe of a second one while a generateCompletion call awaits the probe of
\* its fallback candidate; getAvailableProviders has returned the two names.
C20_Witness ==
    /\ query.pc = "probing"
    /\ Len(query.probed) = 2
    /\ query.availability[query.probed[1]] \in {"true", "false"}
    /\ call.pc = "preprobe"
    /\ Len(listed) = 2
    /\ listed = regOrder

\* The configuration an option object o stands for on its own: its fields,
\* the constructor's defaults for those it leaves out.
ConfigurationOf(o) ==
    [defaultProvider |-> IF Truthy(o.dp) THEN o.dp ELSE Undef,
     fallbackProviders |-> IF o.hasFb THEN o.fb ELSE <<>>,
     retryAttempts |-> IF o.hasRa THEN o.ra ELSE DefaultRetryAttempts,
     retryDelay |-> IF o.hasRd THEN o.rd ELSE DefaultRetryDelay]

\* C21: configure(c) replaces the stored configuration: after the step the
\* four fields are those of c, whatever was configured before.
C21_ConfigureReplaces ==
    [][(call' = call /\ providers' = providers) =>
       \A o \in ConfigureInputs :
          Configure(o.dp, o.hasFb, o.fb, o.hasRa, o.ra, o.hasRd, o.rd) =>
              /\ defaultProvider' = ConfigurationOf(o).defaultProvider
              /\ fallbackProviders' = ConfigurationOf(o).fallbackProviders
              /\ retryAttempts' = ConfigurationOf(o).retryAttempts
              /\ retryDelay' = ConfigurationOf(o).retryDelay]_vars

\* C21 as amended: configure(c) replaces each field c gives (a non-empty
\* defaultProvider, a fallbackProviders array, a retryAttempts, a retryDelay)
\* and keeps the stored value of every field c leaves out; a c that gives all
\* four fields determines the whole configuration, whatever was stored before.
C21_ConfigureMerges ==
    [][(call' = call /\ providers' = providers) =>
       \A o \in ConfigureInputs :
          Configure(o.dp, o.hasFb, o.fb, o.hasRa, o.ra, o.hasRd, o.rd) =>
              /\ (o.dp \notin {Undef, ""} => defaultProvider' = o.dp)
              /\ (o.dp \in {Undef, ""} => defaultProvider' = defaultProvider)
              /\ (o.hasFb => fallbackProviders' = o.fb)
              /\ (~o.hasFb => fallbackProviders' = fallbackProviders)
              /\ (o.hasRa => retryAttempts' = o.ra)
              /\ (~o.hasRa => retryAttempts' = retryAttempts)
              /\ (o.hasRd => retryDelay' = o.rd)
              /\ (~o.hasRd => retryDelay' = retryDelay)
              /\ ((o.dp \notin {Undef, ""} /\ o.hasFb /\ o.hasRa /\ o.hasRd) =>
                     ConfigurationNow' = [retryAttempts |-> o.ra, retryDelay |-> o.rd,
                                          fallbackProviders |-> o.fb])]_vars

\* A configure call that gave retryAttempts and no retryDelay has run: the
\* constructor's retryDelay is still stored beside the new retryAttempts.
C21_Witness ==
    /\ retryAttempts = 1
    /\ retryDelay = DefaultRetryDelay
    /\ defaultProvider = "A"

\* C22: in every reachable state the stored retryAttempts is an integer
\* greater than or equal to 1.
C22_RetryAttemptsAtLeastOne == retryAttempts \in Nat /\ retryAttempts >= 1

\* The kinds of failure a try of the primary can end with.
FailureKinds == {"unavailable", "probe_threw"} \cup CallErrorKinds

\* A try of the primary has just failed in this step.
PrimaryTryFails ==
    /\ call.phase = "primary"
    /\ call.pc \in {"probe", "gen"}
    /\ call'.primaryTryError # call.primaryTryError

\* The catch around the primary runs in this step, after at least one try.
PrimaryCaught ==
    /\ call.phase = "primary"
    /\ call.pc = "rejected"
    /\ call.primaryTries > 0
    /\ call' # call

\* C23: every failure of a try of the primary is handled alike, whatever its
\* kind: with tries left the loop waits and stays on the primary; the retry
\* loop gives up at the failure of try number retryAttempts, never earlier,
\* with the error of that try, and the fallback phase starts from there with
\* the primary tried exactly retryAttempts times.
C23_FailuresHandledUniformly ==
    [][/\ PrimaryTryFails =>
             /\ call'.primaryTryError.kind \in FailureKinds
             /\ call'.primaryTryError.try = call.attempt
             /\ call'.phase = "primary"
             /\ call'.primaryTries = call.primaryTries
             /\ IF call.attempt < retryAttempts
                THEN /\ call'.pc = "delay"
                     /\ call'.attempt = call.attempt
                ELSE /\ call'.pc = "rejected"
                     /\ call'.primaryTries = retryAttempts
                     /\ call'.thrown = call'.primaryTryError
       /\ PrimaryCaught =>
             /\ call'.phase = "fallback"
             /\ call'.primaryTries = retryAttempts
             /\ call'.primaryTryError.try = retryAttempts
             /\ call'.error = call'.primaryTryError
             /\ call'.fbList = fallbackProviders]_vars

\* The fallback loop is probing a candidate after the primary's two tries
\* failed, the last of them with an authentication error.
C23_Witness ==
    /\ call.pc = "preprobe"
    /\ retryAttempts = 2
    /\ call.primaryTries = 2
    /\ call.primaryTryError.kind = "auth"
    /\ call.primaryTryError.try = 2

\* The content of the system messages of a conversation, in order.
RECURSIVE SystemContents(_)
SystemContents(messages) ==
    IF messages = <<>> THEN <<>>
    ELSE (IF Head(messages).role = "system" THEN <<Head(messages).content>> ELSE <<>>)
             \o SystemContents(Tail(messages))

\* An isAvailable call on the adapter has returned or thrown.
ProbeAnswered == adapter.op = "isAvailable" /\ adapter.pc = "done"

\* C24: isAvailable never throws, for any of the three adapters: it answers
\* true or false whatever the vendor call behind it did (or with no key at
\* all), and false whenever that call failed.
C24_IsAvailableNeverThrows ==
    ProbeAnswered =>
        /\ adapter.outcome \in {"true", "false"}
        /\ (adapter.probe \notin {"none", "ok"} => adapter.outcome = "false")

\* OpenAI's models.list() was rejected with an authentication error and
\* isAvailable answered false.
C24_Witness ==
    /\ ProbeAnswered
    /\ adapter.kind = "openai"
    /\ adapter.probe = "auth"
    /\ adapter.outcome = "false"

\* The request the Claude adapter has sent for the conversation in hand.
ClaudeSent ==
    /\ adapter.kind = "claude"
    /\ adapter.op = "generateCompletion"
    /\ adapter.pc \in {"creating", "done"}
    /\ adapter.client

\* C29: the Claude adapter sends no system-role message in the message list;
\* the content of the conversation's system messages is carried in the system
\* field, and the other messages are sent in their order with their roles and
\* contents, so that no message content is dropped.
C29_ClaudeFoldsSystemMessages ==
    ClaudeSent =>
        /\ \A k \in 1..Len(adapter.request.messages) :
               adapter.request.messages[k].role \in {"user", "assistant"}
        /\ adapter.request.messages = SelectSeq(adapter.conversation, IsNotSystem)
        /\ SystemContents(adapter.conversation) =
               IF adapter.request.system = Undef THEN <<>>
               ELSE <<adapter.request.system>>

\* A delay has been started in this step / a try has failed in this step.
DelayStarts == Len(call'.delays) = Len(call.delays) + 1
TryFails == call.pc \in {"probe", "gen"} /\ call'.lastError # call.lastError

\* C25: a backoff delay lies between two consecutive tries of one provider:
\* it starts exactly when try i < retryAttempts has failed (by a false probe,
\* a throwing probe or a call error alike), lasts retryDelay * i, and is
\* followed by try i + 1 of the same provider; no delay starts after the
\* final failed try, on entering the fallback phase or when the loop moves to
\* another candidate, so a primary that failed retryAttempts >= 1 tries has
\* waited retryAttempts - 1 times.
C25_DelaysOnlyBetweenTries ==
    [][/\ (TryFails /\ call.attempt < retryAttempts => DelayStarts)
       /\ (DelayStarts =>
              /\ TryFails
              /\ call.attempt < retryAttempts
              /\ call'.pc = "delay"
              /\ call'.cur = call.cur /\ call'.phase = call.phase
              /\ call'.attempt = call.attempt
              /\ call'.delays[Len(call'.delays)].ms = retryDelay * call.attempt
              /\ call'.delays[Len(call'.delays)].provider = call.cur)
       /\ (call.pc = "delay" /\ call' # call =>
              /\ call'.pc = "probe"
              /\ call'.cur = call.cur /\ call'.phase = call.phase
              /\ call'.attempt = call.attempt + 1
              /\ call'.delays = call.delays)
       /\ (InFlight /\ (call'.phase # call.phase \/ call'.fbIdx # call.fbIdx) =>
              /\ call.pc # "delay"
              /\ call'.pc # "delay"
              /\ call'.delays = call.delays)
       /\ (call.phase = "primary" /\ call'.phase = "fallback" =>
              Len(call'.delays) = IF retryAttempts >= 1 THEN retryAttempts - 1 ELSE 0)
      ]_vars

\* The dispatch waits between two tries of a fallback candidate, having
\* waited once between the two tries of the primary.
C25_Witness ==
    /\ call.pc = "delay"
    /\ call.phase = "fallback"
    /\ retryAttempts = 2
    /\ Len(call.delays) = 2
    /\ call.delays[1].phase = "primary" /\ call.delays[1].provider = call.providerName
    /\ call.delays[2].phase = "fallback" /\ call.delays[2].provider = call.cur

\* The fallback entries naming n that the fallback loop has taken up.
TakenUp(n) == {j \in EntryIndices : call.fbList[j] = n /\ call.entries[j].pre # "none"}

\* C26: in the fallback phase of one call each provider name is tried at most
\* once, also when the fallback list names it more than once: a name is taken
\* up (probed) by at most one entry of the list and gets at most one
\* generateCompletion call as a fallback candidate.
C26_FallbackNameAtMostOnce ==
    \A n \in Names :
        /\ Cardinality(TakenUp(n)) <= 1
        /\ call.fbGen[n] <= 1

\* The call names a provider explicitly and the registry does not have it.
ExplicitUnregistered ==
    /\ call.pc # "idle"
    /\ Truthy(call.optProvider)
    /\ Get(call.optProvider) = 0

\* C27: a call whose options.provider is non-empty and unregistered fails at
\* once with the provider-not-found error for that name, whether or not the
\* configured default is registered: the default is not substituted, no
\* adapter is probed or called, there is no delay and no fallback phase.
C27_ExplicitNameNotSubstituted ==
    ExplicitUnregistered =>
        /\ call.pc = "done"
        /\ call.providerName = call.optProvider
        /\ call.result = Failure(Err("not_found", call.optProvider, 0))
        /\ call.primaryProvider = 0
        /\ Names3Probe = 0 /\ Names3Gen = 0
        /\ call.delays = <<>>
        /\ call.phase = "none" /\ call.entries = <<>>

\* B was requested and is not registered; the default A is registered, and
\* the call was rejected for B.
C27_Witness ==
    /\ Rejected
    /\ call.optProvider = "B" /\ Get("B") = 0
    /\ defaultProvider = "A" /\ Get("A") # 0
    /\ call.result.error = Err("not_found", "B", 0)

\* C28: a call uses the registry as it was when the call started: the adapter
\* in hand, for a try of the primary or as a fallback candidate, is the one
\* the name had at the start of the call, and every fallback entry the loop
\* takes up was registered then, whatever registerProvider does meanwhile.
C28_RegistrySnapshot ==
    /\ (InFlight => call.curInst = call.registry[call.cur])
    /\ (call.phase = "primary" => call.curInst = call.primaryProvider)
    /\ \A j \in EntryIndices :
           call.entries[j].status # "untouched" => call.registry[call.fbList[j]] # 0

\* The fallback entries naming n that the fallback loop has reached and not skipped.
Reached(n) ==
    {j \in EntryIndices : call.fbList[j] = n /\ call.entries[j].status # "untouched"}

\* C30: with retryAttempts configured as 0 or negative, a call whose primary
\* is registered tries nothing: no isAvailable or generateCompletion call on
\* the primary, on the fallback candidates only the one probe of the fallback
\* loop per entry taken up, no generateCompletion call and no delay at all,
\* and the call rejects with the undefined value (lastError never assigned):
\* executeWithRetry rejects at once, for the primary and for each candidate.
C30_NoTriesWithoutAttempts ==
    (call.pc # "idle" /\ retryAttempts <= 0 /\ call.primaryProvider # 0) =>
        /\ call.pc \in {"rejected", "preprobe", "done"}
        /\ call.phase \in {"primary", "fallback"}
        /\ (call.phase = "primary" => call.pc = "rejected")
        /\ (call.pc = "rejected" => call.thrown = NoError)
        /\ call.primaryTries = 0
        /\ call.nGen = ZeroCount
        /\ call.nProbe = call.fbProbe
        /\ call.nProbe[call.providerName] = 0
        /\ \A n \in Names : call.fbProbe[n] = Cardinality(Reached(n))
        /\ \A j \in EntryIndices : call.entries[j].gens = 0
        /\ call.delays = <<>>
        /\ (Finished => call.result = Failure(NoError))

\* retryAttempts is -1; the fallback candidate answered its probe with true,
\* was not called, and the call rejected with undefined.
C30_Witness ==
    /\ Rejected
    /\ retryAttempts = -1
    /\ call.primaryProvider # 0
    /\ Len(call.entries) >= 1
    /\ call.entries[1].pre = "true" /\ call.entries[1].gens = 0
    /\ call.result.error = NoError

\* C31: configure updates field by field: a field the option object leaves
\* out (and a defaultProvider given as the empty string) keeps its stored
\* value, so no configure call clears a defaultProvider once set, and none
\* puts retryAttempts, retryDelay or the fallback list back to its initial
\* value by leaving it out.
C31_AbsentFieldsKept ==
    [][/\ (Truthy(defaultProvider) => Truthy(defaultProvider'))
       /\ ((call' = call /\ providers' = providers) =>
             \A o \in {i \in ConfigureInputs : ~Truthy(i.dp) \/ ~i.hasFb \/ ~i.hasRa \/ ~i.hasRd} :
                Configure(o.dp, o.hasFb, o.fb, o.hasRa, o.ra, o.hasRd, o.rd) =>
                    /\ (~Truthy(o.dp) => defaultProvider' = defaultProvider)
                    /\ (~o.hasFb => fallbackProviders' = fallbackProviders)
                    /\ (~o.hasRa => retryAttempts' = retryAttempts)
                    /\ (~o.hasRd => retryDelay' = retryDelay)
                    /\ ((~o.hasRa /\ retryAttempts # DefaultRetryAttempts) =>
                           retryAttempts' # DefaultRetryAttempts)
                    /\ ((~o.hasRd /\ retryDelay # DefaultRetryDelay) =>
                           retryDelay' # DefaultRetryDelay)
                    /\ ((~o.hasFb /\ fallbackProviders # <<>>) =>
                           fallbackProviders' # <<>>))]_vars

\* Configure calls have given a defaultProvider and a retryDelay and left
\* retryAttempts out: the stored retryAttempts is still the constructor's.
C31_Witness ==
    /\ defaultProvider = "A"
    /\ retryDelay \in DelayChoices
    /\ retryAttempts = DefaultRetryAttempts
    /\ fallbackProviders = <<>>

\* C32: every adapter generateCompletion call of one call, on the primary
\* and on each fallback candidate, receives the caller's messages and the
\* caller's options unchanged: options.provider still names the requested
\* primary and options.model is neither cleared nor adapted for a fallback.
C32_ArgumentsPassedUnchanged ==
    /\ Len(call.sent) = Names3Gen
    /\ (call.sent # <<>> => call.sent[Len(call.sent)].to = call.lastGen)
    /\ \A k \in 1..Len(call.sent) :
           /\ call.sent[k].messages = call.messages
           /\ call.sent[k].options = [provider |-> call.optProvider, model |-> call.model]

\* The fallback candidate B is being called with the options the caller gave
\* for the primary A: provider 'A' and the OpenAI model name.
C32_Witness ==
    /\ call.pc = "gen" /\ call.phase = "fallback"
    /\ call.cur = "B" /\ call.optProvider = "A"
    /\ call.model = "gpt-4o-mini"
    /\ Len(call.messages) = 2
    /\ call.sent[Len(call.sent)] =
           [to |-> "B", messages |-> call.messages,
            options |-> [provider |-> "A", model |-> "gpt-4o-mini"]]

\* The first entry after j that the fallback loop does not skip (0: none).
NextCandidate(j) ==
    LET later == {k \in (j + 1)..Len(call.entries) : ~Skippable(k)}
    IN  IF later = {} THEN 0 ELSE CHOOSE k \in later : \A m \in later : k <= m

\* C33: a fallback candidate whose isAvailable probe throws is absorbed by
\* the fallback loop: the candidate counts as failed without a
\* generateCompletion call, the loop goes on to the next candidate (or, with
\* none left, rejects), and the error the caller receives is the primary's,
\* not the one the probe threw.
C33_ThrowingFallbackProbeAbsorbed ==
    \A j \in EntryIndices :
        call.entries[j].pre = "throw" =>
            /\ call.entries[j].status = "probe_threw"
            /\ call.entries[j].gens = 0
            /\ call.fbIdx > j
            /\ IF NextCandidate(j) = 0
               THEN /\ Rejected
                    /\ call.result.error = call.primaryTryError
                    /\ call.result.error.src # call.fbList[j]
               ELSE call.entries[NextCandidate(j)].status # "untouched"

\* The probe of the first fallback candidate threw, and the second candidate
\* went on to answer the call.
C33_Witness ==
    /\ Succeeded
    /\ Len(call.entries) = 2
    /\ call.entries[1].pre = "throw" /\ call.entries[1].status = "probe_threw"
    /\ call.entries[2].status = "succeeded"
    /\ call.result.provider = call.fbList[2]

\* C34: after the LLMModule.forRoot wiring ollama is registered, openai and
\* claude exactly when their key is present, and every registerProvider call
\* preceded configure; with no OpenAI key and no explicit default the
\* configured defaultProvider is openai, which is not registered, so a call
\* without options.provider is rejected at once with no adapter call, while
\* ollama is registered and heads the default fallback list.
C34_WiringDefaultsToUnregistered ==
    app.wired =>
        /\ Get(ollama) # 0
        /\ (Get(openai) # 0) = Truthy(app.openaiKey)
        /\ (Get(claude) # 0) = Truthy(app.anthropicKey)
        /\ regOrder = FactoryRegistrations(app.openaiKey, app.anthropicKey)
        /\ app.registeredBeforeConfigure = regLog
        /\ ((~Truthy(app.openaiKey) /\ ~app.explicitDefault) =>
              /\ defaultProvider = openai
              /\ Get(openai) = 0
              /\ (~app.explicitFallbacks => fallbackProviders = <<ollama, claude, openai>>)
              /\ ((call.pc # "idle" /\ ~Truthy(call.optProvider)) =>
                    /\ call.pc = "done"
                    /\ call.result = Failure(Err("not_found", openai, 0))
                    /\ Names3Probe = 0 /\ Names3Gen = 0
                    /\ call.entries = <<>>))

\* Wired with no keys and no explicit default or fallback list: a call
\* without options.provider was rejected for openai although ollama is
\* registered and first in the fallback list.
C34_Witness ==
    /\ app.wired /\ ~Truthy(app.openaiKey) /\ ~app.explicitDefault
    /\ ~app.explicitFallbacks /\ retryAttempts = DefaultRetryAttempts
    /\ Rejected /\ call.optProvider = Undef
    /\ call.result.error = Err("not_found", openai, 0)
    /\ Get(ollama) # 0
    /\ fallbackProviders[1] = ollama

\* C35: generateChatResponse never rejects: whatever the dispatch did, it
\* resolves; the response names the provider of the dispatch result when the
\* dispatch succeeded and 'mock' exactly when the dispatch was rejected, with
\* a configuration error or after every provider failed.
C35_ChatNeverRejects ==
    app.pc = "responded" =>
        /\ app.response.settled = "resolved"
        /\ app.dispatch.result.status \in {"ok", "error"}
        /\ (app.dispatch.result.status = "ok" =>
              /\ app.response.provider = app.dispatch.result.provider
              /\ app.response.provider \in Names)
        /\ (app.dispatch.result.status = "error" => app.response.provider = mock)
        /\ (app.response.provider = mock) = (app.dispatch.result.status = "error")

\* A chat request for an unregistered provider was answered with the mock
\* response after the dispatch failed with the configuration error.
C35_Witness ==
    /\ app.pc = "responded"
    /\ app.dispatch.result.error.kind = "not_found"
    /\ app.response = [settled |-> "resolved", provider |-> mock, text |-> 1]

\* C36: the chat service hands the dispatch an explicit provider,
\* request.provider or 'openai' when the request names none, so the
\* configured defaultProvider plays no part; a request without provider gets
\* the mock response whenever openai is not registered, with no adapter
\* call, whatever else is registered.
C36_ChatIgnoresDefault ==
    /\ (app.pc = "awaiting" =>
           /\ Truthy(call.optProvider)
           /\ call.optProvider = IF Truthy(app.request) THEN app.request ELSE openai
           /\ call.providerName = call.optProvider)
    /\ (app.pc = "responded" =>
           /\ app.dispatch.providerName = IF Truthy(app.request) THEN app.request ELSE openai
           /\ ((~Truthy(app.request) /\ Get(openai) = 0) =>
                 /\ app.response.provider = mock
                 /\ app.dispatch.probes = 0 /\ app.dispatch.gens = 0))

\* A chat request without provider got the mock response: openai is not
\* registered, while the configured default ollama is.
C36_Witness ==
    /\ app.pc = "responded" /\ app.request = Undef
    /\ Get(openai) = 0
    /\ defaultProvider = ollama /\ Get(ollama) # 0
    /\ app.response.provider = mock
    /\ app.dispatch.result.error = Err("not_found", openai, 0)

====
